---- MODULE Spec2Model ----
(***************************************************************************)
(* Model of the Tiqiaa TView USB IR driver (tiqiaa/device.py,              *)
(* tiqiaa/protocol.py): the inbound fragment reassembler, the shared inbox *)
(* with its notification event and lock, the background reader thread and  *)
(* the foreground operations open / close / send_ir / receive_ir /         *)
(* set_mode with their helpers _send_cmd_wait, _send_cmd and _send_report. *)
(* Bytes are integers 0..255, byte strings are sequences.                  *)
(***************************************************************************)
EXTENDS Integers, Sequences, FiniteSets, TLC

(***************************************************************************)
(* Protocol constants (tiqiaa/protocol.py) and literals of device.py.      *)
(***************************************************************************)
PACK_START == 21587
PACK_END == 20037
MAX_FRAG_SIZE == 56
CMD_IDLE_MODE == 76
CMD_SEND_MODE == 83
CMD_RECV_MODE == 82
CMD_DATA == 68
CMD_OUTPUT == 79
CMD_CANCEL == 67
STATE_IDLE == 3
STATE_SEND == 9
STATE_RECV == 19
REPORT_ID_IN == 1
REPORT_ID_OUT == 2
HEADER_LEN == 5
REPORT_LEN == 61
WRITE_ATTEMPTS == 5
OPEN_ATTEMPTS == 3
CMD_ID_MOD == 127
PACKET_IDX_MOD == 15

(***************************************************************************)
(* Bounds of the model.                                                    *)
(***************************************************************************)
\* Reads that return data in one behaviour of a session (Spec).
MaxReads == 2
\* Reads that return data in one behaviour of the reassembler alone (SpecReasm).
MaxFragReads == 3
\* Largest fragment_count offered to the reassembler in SpecReasm.
MaxFrags == 2
\* Public operations called in one behaviour.
MaxCalls == 2
\* Public calls in a behaviour of the open / close life cycle (SpecSessions).
MaxSessionCalls == 3

VARIABLES
    dev,                \* self.dev is not None
    packet_idx,         \* self.packet_idx
    cmd_id,             \* self.cmd_id
    device_state,       \* self.device_state
    read_active,        \* self.read_active
    received_packets,   \* self.received_packets (the inbox)
    packet_event,       \* self.packet_event (threading.Event flag)
    lock,               \* self.lock: 0 free, -1 held by the foreground,
                        \* r > 0 held by reader thread r
    recv_buffer,        \* self._recv_buffer
    recv_packet_idx,    \* self._recv_packet_idx
    recv_frag_count,    \* self._recv_frag_count
    recv_last_frag,     \* self._recv_last_frag
    r_pc,               \* position of each reader thread in _read_thread
    r_data,             \* data of _read_thread: what the last read returned
    feed,               \* what the inbound endpoint delivers: "frags", "replies"
                        \* or, for a device that sends nothing, "silent"
    reads,              \* history: reads that returned data so far
    op,                 \* the public operation called last
    pc,                 \* position of the foreground thread ("idle": no call runs)
    stack,              \* return positions of the helper calls in progress
    result,             \* what the last public operation returned or raised
    result_data,        \* the bytes receive_ir returned
    a_ir,               \* ir_data argument of send_ir
    a_freq,             \* freq argument of send_ir
    calls,              \* public operations called so far
    w_cmd_id,           \* local cmd_id of _send_cmd_wait / send_ir
    w_cmd_type,         \* cmd_type the wait loop looks for
    w_kind,             \* which wait loop runs: "cmd", "ack" or "data"
    timeout_zero,       \* receive_ir was called with timeout_sec = 0
    a_mode,             \* mode argument of the set_mode called last
    state_at_call,      \* history: device_state when the operation was called
    clears,             \* history: inbox clears of the current operation
    rv,                 \* value returned by the helper called last
    packet,             \* data argument of _send_report
    offset,             \* offset of _send_report
    attempt,            \* attempt of the write retry loop
    open_attempt,       \* attempt of open()'s initialisation loop
    wire,               \* history: reports written by the current operation
    scanned,            \* history: inbox entries examined since the last clear
    fresh,              \* history: packets published since the last clear
    nec_pc,             \* position in the NEC codec: "unused", "encode", "decode", "done"
    nec_code,           \* code argument of encode_nec
    nec_address,        \* address argument of encode_nec_extended (None under encode_nec)
    nec_command,        \* command argument of encode_nec_extended (None under encode_nec)
    full_code,          \* full_code of encode_nec
    pulse_time,         \* pulse_time of encode_nec
    sender_time,        \* sender_time of encode_nec
    nec_result,         \* result of encode_nec: the bytes emitted so far
    nec_step,           \* add_pulse calls made so far
    decoded,            \* what decode_nec returned (None before it has run)
    fq_pc,              \* position in a frequency lookup: "unused", "call", "returned", "back"
    fq_fn,              \* the lookup called first: "get_freq_index" or "get_freq_by_index"
    fq_arg,             \* its argument
    fq_ret,             \* what it returned
    fq_back,            \* what the other lookup returned for that result
    g_main,             \* GUI: where the Tk main thread is: "idle" or inside a handler
    g_ir,               \* GUI: self.ir: 0 for None, else the number of the TiqiaaIR instance
    g_connects,         \* GUI: TiqiaaIR instances created so far
    g_sending,          \* GUI: self.sending
    g_lock,             \* GUI: holder of self.send_lock, "free" when nobody holds it
    g_send,             \* GUI: each _send_loop thread: its position, the instance it calls
    g_learn,            \* GUI: the learn thread: its position, the instance it calls
    g_conn              \* GUI: the connect thread: "off", "assign", "open"

reasmVars == <<recv_buffer, recv_packet_idx, recv_frag_count, recv_last_frag>>
inboxVars == <<received_packets, packet_event>>
readerVars == <<r_pc, r_data>>
necVars == <<nec_pc, nec_code, nec_address, nec_command, full_code, pulse_time, sender_time, nec_result,
            nec_step, decoded>>
freqVars == <<fq_pc, fq_fn, fq_arg, fq_ret, fq_back>>
\* What no step of a session touches: the kind of device, the NEC codec,
\* the frequency lookups, the graphical front-end.
guiVars == <<g_main, g_ir, g_connects, g_sending, g_lock, g_send, g_learn, g_conn>>
asideVars == <<feed, necVars, freqVars, guiVars>>
envVars == <<asideVars, reads>>
fieldVars == <<dev, packet_idx, cmd_id, device_state, read_active>>
callVars == <<op, calls, wire, result, result_data, a_ir, a_freq, timeout_zero,
              a_mode, state_at_call, clears>>
ctlVars == <<pc, stack>>
localVars == <<w_cmd_id, w_cmd_type, w_kind, rv, packet, offset, attempt,
               open_attempt>>
fgVars == <<callVars, ctlVars, localVars>>
vars == <<fieldVars, inboxVars, lock, reasmVars, readerVars, envVars, fgVars,
          scanned, fresh>>

(***************************************************************************)
(* Byte-string helpers: Python slicing and struct.pack / struct.unpack.    *)
(***************************************************************************)
Min(a, b) == IF a < b THEN a ELSE b

\* s[a:b] of Python for 0 <= a, 0 <= b (0-based, end exclusive, clipped).
PySlice(s, a, b) == SubSeq(s, a + 1, Min(b, Len(s)))

\* struct.unpack('<H', two bytes)
UnpackLE16(b) == b[1] + 256 * b[2]

\* struct.pack('<H', v)
PackLE16(v) == <<v % 256, v \div 256>>

(***************************************************************************)
(* _process_recv_data: parsing of one inbound read.                        *)
(***************************************************************************)
FragSizeOf(data) == data[2]
PacketIdxOf(data) == data[3]
FragCountOf(data) == data[4]
FragIdxOf(data) == data[5]
PayloadSizeOf(data) == FragSizeOf(data) - 3

\* Mutant of Discarded: the report tag is not looked at.
Discarded_AnyTag(data) ==
    \/ Len(data) < HEADER_LEN
    \/ PayloadSizeOf(data) <= 0
    \/ PayloadSizeOf(data) > MAX_FRAG_SIZE

\* The early returns: short read, foreign report tag, payload size out of range.
Discarded(data) ==
    \/ Len(data) < HEADER_LEN
    \/ data[1] # REPORT_ID_IN
    \/ PayloadSizeOf(data) <= 0
    \/ PayloadSizeOf(data) > MAX_FRAG_SIZE

PayloadOf(data) == PySlice(data, HEADER_LEN, HEADER_LEN + PayloadSizeOf(data))

\* if frag_idx == 1
StartsPacket(data) == FragIdxOf(data) = 1

\* Mutant of ContinuesPacket: any later fragment of the packet is taken.
ContinuesPacket_AnyIndex(data, pidx, last) ==
    /\ FragIdxOf(data) # 1
    /\ PacketIdxOf(data) = pidx

\* Mutant of ContinuesPacket: the packet_idx comparison is forgotten.
ContinuesPacket_NoPacketIdx(data, pidx, last) ==
    /\ FragIdxOf(data) # 1
    /\ FragIdxOf(data) = last + 1

\* elif packet_idx == self._recv_packet_idx and frag_idx == self._recv_last_frag + 1
ContinuesPacket(data, pidx, last) ==
    /\ FragIdxOf(data) # 1
    /\ PacketIdxOf(data) = pidx
    /\ FragIdxOf(data) = last + 1

\* Mutant of AfterFragment: a first fragment is added to the buffer in
\* progress instead of replacing it.
AfterFragment_KeepsBuffer(data, buf, pidx, cnt, last) ==
    IF StartsPacket(data)
    THEN [buf |-> buf \o PayloadOf(data), pidx |-> PacketIdxOf(data),
          cnt |-> FragCountOf(data), last |-> 1]
    ELSE IF ContinuesPacket(data, pidx, last)
    THEN [buf |-> buf \o PayloadOf(data), pidx |-> pidx,
          cnt |-> cnt, last |-> FragIdxOf(data)]
    ELSE [buf |-> buf, pidx |-> pidx, cnt |-> cnt, last |-> last]

\* The reassembly state after the fragmentation branch, as a record.
AfterFragment(data, buf, pidx, cnt, last) ==
    IF StartsPacket(data)
    THEN [buf |-> PayloadOf(data), pidx |-> PacketIdxOf(data),
          cnt |-> FragCountOf(data), last |-> 1]
    ELSE IF ContinuesPacket(data, pidx, last)
    THEN [buf |-> buf \o PayloadOf(data), pidx |-> pidx,
          cnt |-> cnt, last |-> FragIdxOf(data)]
    ELSE [buf |-> buf, pidx |-> pidx, cnt |-> cnt, last |-> last]

\* if self._recv_frag_count > 0 and self._recv_last_frag == self._recv_frag_count
Complete(cnt, last) == cnt > 0 /\ last = cnt

\* Mutant of MarkersValid: the end marker is not compared.
MarkersValid_NoEnd(buf) ==
    /\ Len(buf) >= 4
    /\ UnpackLE16(PySlice(buf, 0, 2)) = PACK_START

\* len >= 4, start_sig == PACK_START and end_sig == PACK_END
MarkersValid(buf) ==
    /\ Len(buf) >= 4
    /\ UnpackLE16(PySlice(buf, 0, 2)) = PACK_START
    /\ UnpackLE16(SubSeq(buf, Len(buf) - 1, Len(buf))) = PACK_END

\* Mutant of PacketData: the markers are published with the packet.
PacketData_WithMarkers(buf) == buf

\* bytes(self._recv_buffer[2:-2])
PacketData(buf) == SubSeq(buf, 3, Len(buf) - 2)

(***************************************************************************)
(* What the inbound endpoint delivers.                                     *)
(***************************************************************************)
START_BYTES == PackLE16(PACK_START)
END_BYTES == PackLE16(PACK_END)

\* An inbound report: 5-byte header, then the payload.
Frame(pi, fc, fi, payload) ==
    <<REPORT_ID_IN, Len(payload) + 3, pi, fc, fi>> \o payload

\* Payloads offered to the reassembler alone: a packet head, a bare command
\* header, a packet tail, a whole packet.
FragPayloads ==
    { START_BYTES \o <<5, CMD_SEND_MODE>>,
      <<5, CMD_SEND_MODE>>,
      END_BYTES,
      START_BYTES \o <<5, CMD_SEND_MODE>> \o END_BYTES }

\* Reads offered to the reassembler alone: every header over the payloads, and
\* reads the discard rules and the slicing of the payload are about.
FragInputs ==
    { Frame(pi, fc, fi, b) :
        pi \in 0..2, fc \in 0..MaxFrags, fi \in 1..(MaxFrags + 1),
        b \in FragPayloads }
    \cup { <<>>,
           <<REPORT_ID_IN, 7, 1, 1>>,
           <<REPORT_ID_IN, 7, 1, 1, 1>>,
           <<REPORT_ID_IN, 5, 1, 1, 1>> \o START_BYTES \o END_BYTES,
           <<REPORT_ID_IN, 59, 1, 2, 2>> \o END_BYTES,
           <<REPORT_ID_IN, 3, 1, 1, 1>> \o START_BYTES \o END_BYTES,
           <<REPORT_ID_IN, 0, 1, 1, 1>> \o START_BYTES \o END_BYTES,
           <<REPORT_ID_IN, 60, 1, 1, 1>> \o START_BYTES \o END_BYTES,
           <<REPORT_ID_OUT, 9, 1, 1, 1>> \o START_BYTES
               \o <<5, CMD_SEND_MODE>> \o END_BYTES }

\* A one-fragment reply of the device: markers around command_id, command_type
\* and the rest of the payload, padded with a zero byte.
Reply(id, type, tail) ==
    <<REPORT_ID_IN, Len(tail) + 9, 1, 1, 1>>
        \o START_BYTES \o <<id, type>> \o tail \o END_BYTES \o <<0>>

\* The state byte the firmware reports for a mode command.
ModeState(type) ==
    IF type = CMD_SEND_MODE THEN STATE_SEND
    ELSE IF type = CMD_RECV_MODE THEN STATE_RECV
    ELSE STATE_IDLE

OtherId(id) == (id % CMD_ID_MOD) + 1
OtherType(type) == IF type = CMD_SEND_MODE THEN CMD_RECV_MODE ELSE CMD_SEND_MODE

\* The command type the device answers with: the type of the command sent
\* last, or the output acknowledgement while send_ir waits for it.
ExpectedType == IF w_kind = "ack" THEN CMD_OUTPUT ELSE w_cmd_type

\* Replies offered to a running session, relative to the command in progress:
\* the expected reply without a state byte, with the mode's state byte and
\* with the byte 77, the expected type under another command_id, another type
\* under the expected command_id, and learned IR data.
DevFrames ==
    { Reply(cmd_id, ExpectedType, <<>>),
      Reply(cmd_id, ExpectedType, <<ModeState(ExpectedType)>>),
      Reply(cmd_id, ExpectedType, <<77>>),
      Reply(OtherId(cmd_id), ExpectedType, <<ModeState(ExpectedType)>>),
      Reply(cmd_id, OtherType(ExpectedType), <<>>),
      Reply(OtherId(cmd_id), CMD_DATA, <<133, 5>>) }

\* The two fragments of one packet, offered to a session that is reopened.
PairFrags ==
    { Frame(1, 2, 1, START_BYTES \o <<5, CMD_SEND_MODE>>),
      Frame(1, 2, 2, END_BYTES) }

Inbound ==
    IF feed = "frags" THEN FragInputs
    ELSE IF feed = "silent" THEN {}
    ELSE IF feed = "pair" THEN PairFrags
    ELSE DevFrames

\* How many reads return data before the endpoint only times out.
ReadLimit == IF feed = "frags" THEN MaxFragReads ELSE MaxReads

(***************************************************************************)
(* The background reader: _read_thread and _process_recv_data.             *)
(***************************************************************************)
Readers == 1..(IF MaxCalls < MaxSessionCalls THEN MaxSessionCalls ELSE MaxCalls)

\* Mutant of PublishSteps: the event is set before the lock is taken.
PublishSteps_SetFirst == <<"set", "lock", "append", "unlock">>

\* with self.lock: self.received_packets.append(packet_data); self.packet_event.set()
PublishSteps == <<"lock", "append", "set", "unlock">>

PublishPcs == <<"pub1", "pub2", "pub3", "pub4">>
InPublish(r) == \E i \in 1..4 : r_pc[r] = PublishPcs[i]

\* while self.read_active:
ReaderLoop(r) ==
    /\ r_pc[r] = "loop"
    /\ r_pc' = [r_pc EXCEPT ![r] = IF read_active THEN "read" ELSE "stopped"]
    /\ r_data' = [r_data EXCEPT ![r] = <<>>]
    /\ UNCHANGED <<fieldVars, inboxVars, lock, reasmVars, envVars, fgVars,
                   scanned, fresh>>

\* What _process_recv_data does to the reassembly state, and where the reader
\* goes next: to the publication, to the reset of the fragment count, or back
\* to its loop.
Reassemble(r, data) ==
    IF Discarded(data)
    THEN /\ r_pc' = [r_pc EXCEPT ![r] = "loop"]
         /\ UNCHANGED reasmVars
    ELSE LET st == AfterFragment(data, recv_buffer, recv_packet_idx,
                                 recv_frag_count, recv_last_frag)
         IN  /\ recv_buffer' = st.buf
             /\ recv_packet_idx' = st.pidx
             /\ recv_frag_count' = st.cnt
             /\ recv_last_frag' = st.last
             /\ r_pc' = [r_pc EXCEPT ![r] =
                    IF Complete(st.cnt, st.last)
                    THEN IF MarkersValid(st.buf) THEN PublishPcs[1] ELSE "reset"
                    ELSE "loop"]

\* data = self.dev.read(EP_IN, 64, timeout=100): a timeout or a USB error (back
\* to the loop), or data, which _process_recv_data handles up to the decision
\* to publish; without a device handle the attribute access raises and the
\* thread ends with an unhandled error.
ReaderRead(r) ==
    /\ r_pc[r] = "read"
    /\ IF ~dev
       THEN /\ r_pc' = [r_pc EXCEPT ![r] = "crashed"]
            /\ UNCHANGED <<r_data, reasmVars, reads>>
       ELSE \/ /\ r_pc' = [r_pc EXCEPT ![r] = "loop"]
               /\ r_data' = [r_data EXCEPT ![r] = <<>>]
               /\ UNCHANGED <<reasmVars, reads>>
            \/ /\ reads < ReadLimit
               /\ reads' = reads + 1
               /\ \E d \in Inbound :
                     /\ r_data' = [r_data EXCEPT ![r] = d]
                     /\ IF d = <<>>
                        THEN /\ r_pc' = [r_pc EXCEPT ![r] = "loop"]
                             /\ UNCHANGED reasmVars
                        ELSE Reassemble(r, d)
    /\ UNCHANGED <<fieldVars, inboxVars, lock, asideVars, fgVars, scanned, fresh>>

\* One step of the publication: take the lock, append, set the event, release.
ReaderPublish(r) ==
    \E i \in 1..4 :
        /\ r_pc[r] = PublishPcs[i]
        /\ r_pc' = [r_pc EXCEPT ![r] = IF i = 4 THEN "reset" ELSE PublishPcs[i + 1]]
        /\ CASE PublishSteps[i] = "lock" ->
                  /\ lock = 0
                  /\ lock' = r
                  /\ UNCHANGED <<inboxVars, fresh>>
             [] PublishSteps[i] = "append" ->
                  /\ received_packets' =
                        Append(received_packets, PacketData(recv_buffer))
                  /\ fresh' = fresh + 1
                  /\ UNCHANGED <<packet_event, lock>>
             [] PublishSteps[i] = "set" ->
                  /\ packet_event' = TRUE
                  /\ UNCHANGED <<received_packets, lock, fresh>>
             [] PublishSteps[i] = "unlock" ->
                  /\ lock' = 0
                  /\ UNCHANGED <<inboxVars, fresh>>
        /\ UNCHANGED <<fieldVars, reasmVars, r_data, envVars, fgVars, scanned>>

\* self._recv_frag_count = 0
\* The fragment count survives the completion of a packet.
ReaderReset_KeepsCount(r) ==
    /\ r_pc[r] = "reset"
    /\ r_pc' = [r_pc EXCEPT ![r] = "loop"]
    /\ UNCHANGED <<fieldVars, inboxVars, lock, reasmVars, r_data, envVars, fgVars,
                   scanned, fresh>>

\* self._recv_frag_count = 0
ReaderReset(r) ==
    /\ r_pc[r] = "reset"
    /\ recv_frag_count' = 0
    /\ r_pc' = [r_pc EXCEPT ![r] = "loop"]
    /\ UNCHANGED <<fieldVars, inboxVars, lock, recv_buffer, recv_packet_idx,
                   recv_last_frag, r_data, envVars, fgVars, scanned, fresh>>

Reader(r) ==
    \/ ReaderLoop(r)
    \/ ReaderRead(r)
    \/ ReaderPublish(r)
    \/ ReaderReset(r)

(***************************************************************************)
(* Outbound framing and identifiers.                                       *)
(***************************************************************************)
IR_FREQ_TABLE ==
    <<38000, 37900, 37917, 36000, 40000, 39700, 35750, 36400, 36700, 37000,
      37700, 38380, 38400, 38462, 38740, 39200, 42000, 43600, 44000, 33000,
      33500, 34000, 34500, 35000, 40500, 41000, 41500, 42500, 43000, 45000>>

\* IR_FREQ_TABLE.index(freq), 0 when freq is not in the table (0-based index)
get_freq_index(freq) ==
    IF \E i \in 1..Len(IR_FREQ_TABLE) : IR_FREQ_TABLE[i] = freq
    THEN (CHOOSE i \in 1..Len(IR_FREQ_TABLE) :
              /\ IR_FREQ_TABLE[i] = freq
              /\ \A j \in 1..(i - 1) : IR_FREQ_TABLE[j] # freq) - 1
    ELSE 0

DEFAULT_FREQ == 38000

\* Python's own indexing: a negative index counts from the end of the table.
get_freq_by_index_Negative(index) ==
    IF index < Len(IR_FREQ_TABLE) /\ -Len(IR_FREQ_TABLE) <= index
    THEN IR_FREQ_TABLE[(index % Len(IR_FREQ_TABLE)) + 1]
    ELSE DEFAULT_FREQ

\* IR_FREQ_TABLE[index] if 0 <= index < len(IR_FREQ_TABLE), else DEFAULT_FREQ
get_freq_by_index(index) ==
    IF 0 <= index /\ index < Len(IR_FREQ_TABLE)
    THEN IR_FREQ_TABLE[index + 1]
    ELSE DEFAULT_FREQ

\* self.packet_idx = (self.packet_idx % 15) + 1
NextPacketIdx(p) == (p % PACKET_IDX_MOD) + 1

\* Mutant of NextCmdId: the counter is reduced after the increment.
NextCmdId_ModLast(c) == (c + 1) % CMD_ID_MOD

\* self.cmd_id = (self.cmd_id % 0x7F) + 1
NextCmdId(c) == (c % CMD_ID_MOD) + 1

\* struct.pack('<HBBH', PACK_START, cmd_id, cmd_type, PACK_END)
CmdPacket(id, type) == PackLE16(PACK_START) \o <<id, type>> \o PackLE16(PACK_END)

\* struct.pack('<HBB', PACK_START, cmd_id, CMD_DATA) + bytes([freq_id]) + ir_data
\*     + struct.pack('<H', PACK_END)
IrPacket(id, freq_id, ir) ==
    PackLE16(PACK_START) \o <<id, CMD_DATA>> \o <<freq_id>> \o ir
        \o PackLE16(PACK_END)

\* Mutant of FragCountFor: one more than the number of full fragments.
FragCountFor_Floor(data) == (Len(data) \div MAX_FRAG_SIZE) + 1

\* frag_count = (len(data) + MAX_FRAG_SIZE - 1) // MAX_FRAG_SIZE
FragCountFor(data) == (Len(data) + MAX_FRAG_SIZE - 1) \div MAX_FRAG_SIZE

\* bytes.ljust(n, b'\x00')
LJust(b, n) == b \o [i \in 1..(IF Len(b) < n THEN n - Len(b) ELSE 0) |-> 0]

\* The report of the fragment at offset off (frag_idx = off / 56 + 1).
Report(data, pidx, off) ==
    LET chunk == PySlice(data, off, off + MAX_FRAG_SIZE)
    IN  LJust(<<REPORT_ID_OUT, Len(chunk) + 3, pidx, FragCountFor(data),
                (off \div MAX_FRAG_SIZE) + 1>> \o chunk, REPORT_LEN)

(***************************************************************************)
(* Arguments the public operations are called with.                        *)
(***************************************************************************)
\* Timing bytes of 2 bytes (a one-fragment packet) and of 50 bytes (a packet
\* of 57 bytes: two fragments).
IrInputs == { <<129, 2>>, [i \in 1..50 |-> 128 + i] }
FreqInputs == {36000}
ModeInputs == {"send", "receive", "idle", "turbo"}

\* Mutant of cmd_map: the receive and idle entries are exchanged.
cmd_map_Swapped ==
    [send |-> CMD_SEND_MODE, receive |-> CMD_IDLE_MODE, idle |-> CMD_RECV_MODE]

\* cmd_map of set_mode
cmd_map ==
    [send |-> CMD_SEND_MODE, receive |-> CMD_RECV_MODE, idle |-> CMD_IDLE_MODE]

(***************************************************************************)
(* The foreground thread: control helpers.                                 *)
(***************************************************************************)
\* A public operation returns or raises: its locals die.
Finish(res) ==
    /\ pc' = "idle"
    /\ stack' = <<>>
    /\ result' = res
    /\ packet' = <<>>
    /\ offset' = 0
    /\ attempt' = 0
    /\ open_attempt' = 0
    /\ a_ir' = <<>>
    /\ a_freq' = 0
    /\ w_kind' = "none"
    /\ timeout_zero' = FALSE

\* What Finish leaves alone among the foreground's variables.
finishKeeps == <<op, calls, wire, result_data, rv, w_cmd_id, w_cmd_type, a_mode,
                 state_at_call, clears>>

\* A helper returns to its caller.
Return ==
    /\ pc' = Head(stack)
    /\ stack' = Tail(stack)

\* A public operation is called, as one of at most limit calls.
BeginWithin(name, limit) ==
    /\ pc = "idle"
    /\ calls < limit
    /\ calls' = calls + 1
    /\ op' = name
    /\ wire' = <<>>
    /\ result_data' = <<>>
    /\ state_at_call' = device_state
    /\ clears' = 0

\* A public operation is called.
Begin(name) == BeginWithin(name, MaxCalls)

sharedVars == <<inboxVars, lock, scanned, fresh>>
readerSide == <<reasmVars, readerVars, envVars>>

(***************************************************************************)
(* _send_report                                                            *)
(***************************************************************************)
\* Mutant of LAST_ATTEMPT: the re-raise tests an attempt number the loop
\* never reaches.
LAST_ATTEMPT_Off == WRITE_ATTEMPTS

\* if attempt == 4: raise
LAST_ATTEMPT == 4

\* packet_idx = self._get_packet_idx(); frag_count; offset = 0; frag_idx = 0
SrBegin ==
    /\ pc = "sr_begin"
    /\ packet_idx' = NextPacketIdx(packet_idx)
    /\ offset' = 0
    /\ attempt' = 0
    /\ IF 0 < Len(packet)
       THEN pc' = "sr_write" /\ UNCHANGED stack
       ELSE Return
    /\ UNCHANGED <<dev, cmd_id, device_state, read_active, sharedVars, readerSide,
                   callVars, w_cmd_id, w_cmd_type, w_kind, rv, packet, open_attempt>>

\* The offset advances by one byte less than a fragment holds.
SrAdvance_Overlap ==
    /\ offset' = offset + MAX_FRAG_SIZE - 1
    /\ attempt' = 0
    /\ IF offset + MAX_FRAG_SIZE - 1 < Len(packet)
       THEN UNCHANGED <<pc, stack>>
       ELSE Return

\* The fragment at offset was written, or its retries ran out without a raise:
\* offset += MAX_FRAG_SIZE and the while loop goes on or ends.
SrAdvance ==
    /\ offset' = offset + MAX_FRAG_SIZE
    /\ attempt' = 0
    /\ IF offset + MAX_FRAG_SIZE < Len(packet)
       THEN UNCHANGED <<pc, stack>>
       ELSE Return

\* Mutant of Raise: close() has no handler around its idle command.
Raise_NoCloseCatch(exc) ==
    IF op = "open"
    THEN /\ pc' = "open_except"
         /\ stack' = <<>>
         /\ UNCHANGED <<result, packet, offset, attempt, open_attempt, a_ir,
                        a_freq, w_kind, timeout_zero>>
    ELSE Finish(exc)

\* An exception leaves _send_report: open() catches USB errors and retries,
\* close() ignores everything, the other operations let it propagate.
Raise(exc) ==
    IF op = "open"
    THEN /\ pc' = "open_except"
         /\ stack' = <<>>
         /\ UNCHANGED <<result, packet, offset, attempt, open_attempt, a_ir,
                        a_freq, w_kind, timeout_zero>>
    ELSE IF op = "close"
    THEN /\ pc' = "close_release"
         /\ stack' = <<>>
         /\ UNCHANGED <<result, packet, offset, attempt, open_attempt, a_ir,
                        a_freq, w_kind, timeout_zero>>
    ELSE Finish(exc)

\* for attempt in range(5): self.dev.write(EP_OUT, report, timeout=2000)
SrWrite ==
    /\ pc = "sr_write"
    /\ IF ~dev
       THEN /\ Raise("AttributeError")
            /\ UNCHANGED wire
       ELSE \/ /\ wire' = Append(wire, Report(packet, packet_idx, offset))
               /\ SrAdvance
               /\ UNCHANGED <<result, packet, open_attempt, a_ir, a_freq, w_kind,
                              timeout_zero>>
            \/ \E exc \in {"USBTimeoutError", "USBError"} :
                  /\ UNCHANGED wire
                  /\ IF attempt = LAST_ATTEMPT
                     THEN Raise(exc)
                     ELSE IF attempt + 1 < WRITE_ATTEMPTS
                     THEN /\ attempt' = attempt + 1
                          /\ UNCHANGED <<pc, stack, result, packet, offset,
                                         open_attempt, a_ir, a_freq, w_kind,
                                         timeout_zero>>
                     ELSE /\ SrAdvance
                          /\ UNCHANGED <<result, packet, open_attempt, a_ir,
                                         a_freq, w_kind, timeout_zero>>
    /\ UNCHANGED <<fieldVars, sharedVars, readerSide, op, calls, result_data,
                   w_cmd_id, w_cmd_type, rv, a_mode, state_at_call, clears>>

(***************************************************************************)
(* with self.lock: self.received_packets.clear(); self.packet_event.clear() *)
(***************************************************************************)
ClrLock ==
    /\ pc = "clr_lock"
    /\ lock = 0
    /\ lock' = -1
    /\ pc' = "clr_inbox"
    /\ UNCHANGED <<fieldVars, inboxVars, scanned, fresh, readerSide, callVars,
                   stack, localVars>>

ClrInbox ==
    /\ pc = "clr_inbox"
    /\ received_packets' = <<>>
    /\ scanned' = 0
    /\ fresh' = 0
    /\ clears' = clears + 1
    /\ pc' = "clr_event"
    /\ UNCHANGED <<fieldVars, packet_event, lock, readerSide, op, calls, wire,
                   result, result_data, a_ir, a_freq, timeout_zero, a_mode,
                   state_at_call, stack, localVars>>

ClrEvent ==
    /\ pc = "clr_event"
    /\ packet_event' = FALSE
    /\ pc' = "clr_unlock"
    /\ UNCHANGED <<fieldVars, received_packets, lock, scanned, fresh, readerSide,
                   callVars, stack, localVars>>

ClrUnlock ==
    /\ pc = "clr_unlock"
    /\ lock' = 0
    /\ Return
    /\ UNCHANGED <<fieldVars, inboxVars, scanned, fresh, readerSide, callVars,
                   localVars>>

(***************************************************************************)
(* _send_cmd_wait, and the wait loops of send_ir and receive_ir.           *)
(***************************************************************************)
\* cmd_id = self._get_cmd_id(), then the clear of the inbox
WBegin ==
    /\ pc = "w_begin"
    /\ cmd_id' = NextCmdId(cmd_id)
    /\ w_cmd_id' = NextCmdId(cmd_id)
    /\ w_kind' = "cmd"
    /\ pc' = "clr_lock"
    /\ stack' = <<"w_send">> \o stack
    /\ UNCHANGED <<dev, packet_idx, device_state, read_active, sharedVars,
                   readerSide, callVars, w_cmd_type, rv, packet, offset, attempt,
                   open_attempt>>

\* self._send_cmd(cmd_type, cmd_id)
WSend ==
    /\ pc = "w_send"
    /\ packet' = CmdPacket(w_cmd_id, w_cmd_type)
    /\ pc' = "sr_begin"
    /\ stack' = <<"wl_check">> \o stack
    /\ UNCHANGED <<fieldVars, sharedVars, readerSide, callVars, w_cmd_id,
                   w_cmd_type, w_kind, rv, offset, attempt, open_attempt>>

\* Mutant of WindowMayBeOpen: the loop body runs before the window is tested.
WindowMayBeOpen_Always == TRUE

\* time.time() - start < timeout can hold: a window of 0 seconds is never open.
WindowMayBeOpen == ~(w_kind = "data" /\ timeout_zero)

\* while time.time() - start < timeout: the window is still open, or it has
\* elapsed (a window of 0 seconds is never open).
WlCheck ==
    /\ pc = "wl_check"
    /\ \/ /\ WindowMayBeOpen
          /\ pc' = "wl_wait"
          /\ UNCHANGED <<stack, rv>>
       \/ /\ rv' = FALSE
          /\ Return
    /\ UNCHANGED <<fieldVars, sharedVars, readerSide, callVars, w_cmd_id,
                   w_cmd_type, w_kind, packet, offset, attempt, open_attempt>>

\* if self.packet_event.wait(timeout=...)
WlWait ==
    /\ pc = "wl_wait"
    /\ pc' = IF packet_event THEN "wl_lock" ELSE "wl_check"
    /\ UNCHANGED <<fieldVars, sharedVars, readerSide, callVars, stack, localVars>>

\* with self.lock:
WlLock ==
    /\ pc = "wl_lock"
    /\ lock = 0
    /\ lock' = -1
    /\ pc' = "wl_scan"
    /\ UNCHANGED <<fieldVars, inboxVars, scanned, fresh, readerSide, callVars,
                   stack, localVars>>

\* Mutant of MatchCmd: the command type of the reply is not compared.
MatchCmd_NoType(pkt) == Len(pkt) >= 2 /\ pkt[1] = w_cmd_id

\* len(pkt) >= 2 and pkt[0] == cmd_id and pkt[1] == cmd_type
MatchCmd(pkt) == Len(pkt) >= 2 /\ pkt[1] = w_cmd_id /\ pkt[2] = w_cmd_type

\* len(pkt) >= 2 and pkt[0] == cmd_id and pkt[1] == CMD_OUTPUT
MatchAck(pkt) == Len(pkt) >= 2 /\ pkt[1] = w_cmd_id /\ pkt[2] = CMD_OUTPUT

\* Mutant of MatchData: the type is compared with the start-output type.
MatchData_OutputType(pkt) == Len(pkt) >= 2 /\ pkt[2] = CMD_OUTPUT

\* len(pkt) >= 2 and pkt[1] == CMD_DATA
MatchData(pkt) == Len(pkt) >= 2 /\ pkt[2] = CMD_DATA

Matches(pkt) ==
    IF w_kind = "cmd" THEN MatchCmd(pkt)
    ELSE IF w_kind = "ack" THEN MatchAck(pkt)
    ELSE MatchData(pkt)

\* The index of the first inbox packet the loop returns on, 0 when there is none.
FirstMatch ==
    IF \E i \in 1..Len(received_packets) : Matches(received_packets[i])
    THEN CHOOSE i \in 1..Len(received_packets) :
            /\ Matches(received_packets[i])
            /\ \A j \in 1..(i - 1) : ~Matches(received_packets[j])
    ELSE 0

\* Mutant of StateAfterReply: the state is taken from the command type byte.
StateAfterReply_TypeByte(pkt, old) == IF Len(pkt) >= 3 THEN pkt[2] ELSE old

\* if len(pkt) >= 3: self.device_state = pkt[2]
StateAfterReply(pkt, old) == IF Len(pkt) >= 3 THEN pkt[3] ELSE old

\* for pkt in self.received_packets: ... return on the first match
WlScan ==
    /\ pc = "wl_scan"
    /\ IF FirstMatch # 0
       THEN LET pkt == received_packets[FirstMatch]
            IN  /\ device_state' =
                      IF w_kind = "cmd"
                      THEN StateAfterReply(pkt, device_state)
                      ELSE device_state
                /\ result_data' =
                      IF w_kind = "data" THEN PySlice(pkt, 2, Len(pkt))
                      ELSE result_data
                /\ rv' = TRUE
                /\ scanned' = FirstMatch
                /\ pc' = "wl_unlock_ret"
       ELSE /\ scanned' = Len(received_packets)
            /\ pc' = "wl_clear"
            /\ UNCHANGED <<device_state, result_data, rv>>
    /\ UNCHANGED <<dev, packet_idx, cmd_id, read_active, inboxVars, lock, fresh,
                   readerSide, op, calls, wire, result, a_ir, a_freq,
                   timeout_zero, a_mode, state_at_call, clears, stack, w_cmd_id,
                   w_cmd_type, w_kind, packet, offset, attempt, open_attempt>>

\* self.packet_event.clear()
WlClear ==
    /\ pc = "wl_clear"
    /\ packet_event' = FALSE
    /\ pc' = "wl_unlock"
    /\ UNCHANGED <<fieldVars, received_packets, lock, scanned, fresh, readerSide,
                   callVars, stack, localVars>>

\* the end of the with block, back to the while
WlUnlock ==
    /\ pc = "wl_unlock"
    /\ lock' = 0
    /\ pc' = "wl_check"
    /\ UNCHANGED <<fieldVars, inboxVars, scanned, fresh, readerSide, callVars,
                   stack, localVars>>

\* return from inside the with block
WlUnlockRet ==
    /\ pc = "wl_unlock_ret"
    /\ lock' = 0
    /\ Return
    /\ UNCHANGED <<fieldVars, inboxVars, scanned, fresh, readerSide, callVars,
                   localVars>>

(***************************************************************************)
(* open                                                                    *)
(***************************************************************************)
\* open() is entered; the model opens only a session that holds no device.
OpenEntry ==
    /\ ~dev
    /\ pc' = "open_find"
    /\ result' = "running"
    /\ UNCHANGED <<fieldVars, sharedVars, readerSide, a_ir, a_freq, timeout_zero,
                   a_mode, stack, localVars>>

CallOpen == Begin("open") /\ OpenEntry

\* usb.core.find: no device (return False), a device whose interface cannot be
\* claimed (the USB error leaves open), or a claimed device.
OpenFind ==
    /\ pc = "open_find"
    /\ \/ /\ dev' = FALSE
          /\ Finish("False")
       \/ /\ dev' = TRUE
          /\ Finish("USBError")
       \/ /\ dev' = TRUE
          /\ pc' = "open_start"
          /\ UNCHANGED <<stack, result, packet, offset, attempt, open_attempt,
                         a_ir, a_freq, w_kind, timeout_zero>>
    /\ UNCHANGED <<packet_idx, cmd_id, device_state, read_active, sharedVars,
                   readerSide, finishKeeps>>

\* self.read_active = True; the reader thread of this session is started
OpenStart ==
    /\ pc = "open_start"
    /\ read_active' = TRUE
    /\ r_pc' = [r_pc EXCEPT ![calls] = "loop"]
    /\ open_attempt' = 0
    /\ pc' = "open_try"
    /\ UNCHANGED <<dev, packet_idx, cmd_id, device_state, sharedVars, reasmVars,
                   r_data, envVars, callVars, stack, w_cmd_id, w_cmd_type, w_kind,
                   rv, packet, offset, attempt>>

\* for attempt in range(3): self._send_cmd(CMD_SEND_MODE)
OpenTry ==
    /\ pc = "open_try"
    /\ cmd_id' = NextCmdId(cmd_id)
    /\ w_cmd_id' = NextCmdId(cmd_id)
    /\ w_cmd_type' = CMD_SEND_MODE
    /\ packet' = CmdPacket(NextCmdId(cmd_id), CMD_SEND_MODE)
    /\ pc' = "sr_begin"
    /\ stack' = <<"open_sent">>
    /\ UNCHANGED <<dev, packet_idx, device_state, read_active, sharedVars,
                   readerSide, callVars, w_kind, rv, offset, attempt,
                   open_attempt>>

\* self.device_state = STATE_SEND
StateAfterOpen(old) == STATE_SEND

\* the command was written: self.device_state = STATE_SEND; return True
OpenSent ==
    /\ pc = "open_sent"
    /\ device_state' = StateAfterOpen(device_state)
    /\ Finish("True")
    /\ UNCHANGED <<dev, packet_idx, cmd_id, read_active, sharedVars, readerSide,
                   finishKeeps>>

\* except usb.core.USBTimeoutError / usb.core.USBError: next attempt, or
\* return False after the third
OpenExcept ==
    /\ pc = "open_except"
    /\ IF open_attempt + 1 < OPEN_ATTEMPTS
       THEN /\ open_attempt' = open_attempt + 1
            /\ pc' = "open_try"
            /\ UNCHANGED <<stack, result, packet, offset, attempt, a_ir, a_freq,
                           w_kind, timeout_zero>>
       ELSE Finish("False")
    /\ UNCHANGED <<fieldVars, sharedVars, readerSide, finishKeeps>>

(***************************************************************************)
(* close                                                                   *)
(***************************************************************************)
\* if self.dev: self.read_active = False; self._send_cmd(CMD_IDLE_MODE)
CloseEntry ==
    /\ IF dev
       THEN /\ read_active' = FALSE
            /\ cmd_id' = NextCmdId(cmd_id)
            /\ w_cmd_id' = NextCmdId(cmd_id)
            /\ w_cmd_type' = CMD_IDLE_MODE
            /\ packet' = CmdPacket(NextCmdId(cmd_id), CMD_IDLE_MODE)
            /\ pc' = "sr_begin"
            /\ stack' = <<"close_release">>
            /\ result' = "running"
            /\ UNCHANGED <<offset, attempt, open_attempt, a_ir, a_freq, w_kind,
                           timeout_zero>>
       ELSE /\ Finish("None")
            /\ UNCHANGED <<read_active, cmd_id, w_cmd_id, w_cmd_type>>
    /\ UNCHANGED <<dev, packet_idx, device_state, sharedVars, readerSide, rv,
                   a_mode>>

CallClose == Begin("close") /\ CloseEntry

\* usb.util.release_interface (errors ignored); self.dev = None
CloseRelease ==
    /\ pc = "close_release"
    /\ dev' = FALSE
    /\ Finish("None")
    /\ UNCHANGED <<packet_idx, cmd_id, device_state, read_active, sharedVars,
                   readerSide, finishKeeps>>

(***************************************************************************)
(* send_ir                                                                 *)
(***************************************************************************)
\* Mutant of NeedsModeSwitch: send_ir never switches the mode first.
NeedsModeSwitch_Never(st) == FALSE

\* if self.device_state != STATE_SEND
NeedsModeSwitch(st) == st # STATE_SEND

\* if self.device_state != STATE_SEND: self._send_cmd_wait(CMD_SEND_MODE)
SendIrEntry ==
    /\ result' = "running"
    /\ \E ir \in IrInputs, freq \in FreqInputs :
          /\ a_ir' = ir
          /\ a_freq' = freq
    /\ IF NeedsModeSwitch(device_state)
       THEN /\ w_cmd_type' = CMD_SEND_MODE
            /\ pc' = "w_begin"
            /\ stack' = <<"s_after_mode">>
       ELSE /\ pc' = "s_build"
            /\ UNCHANGED <<w_cmd_type, stack>>
    /\ UNCHANGED <<fieldVars, sharedVars, readerSide, timeout_zero, a_mode,
                   w_cmd_id, w_kind, rv, packet, offset, attempt, open_attempt>>

CallSendIr == Begin("send_ir") /\ SendIrEntry

\* if not self._send_cmd_wait(CMD_SEND_MODE): return False
SAfterMode ==
    /\ pc = "s_after_mode"
    /\ IF rv
       THEN /\ pc' = "s_build"
            /\ UNCHANGED <<stack, result, packet, offset, attempt, open_attempt,
                           a_ir, a_freq, w_kind, timeout_zero>>
       ELSE Finish("False")
    /\ UNCHANGED <<fieldVars, sharedVars, readerSide, finishKeeps>>

\* freq_id, cmd_id, the IR packet; then the clear of the inbox
SBuild ==
    /\ pc = "s_build"
    /\ cmd_id' = NextCmdId(cmd_id)
    /\ w_cmd_id' = NextCmdId(cmd_id)
    /\ w_cmd_type' = CMD_DATA
    /\ w_kind' = "ack"
    /\ packet' = IrPacket(NextCmdId(cmd_id), get_freq_index(a_freq), a_ir)
    /\ pc' = "clr_lock"
    /\ stack' = <<"s_send">>
    /\ UNCHANGED <<dev, packet_idx, device_state, read_active, sharedVars,
                   readerSide, callVars, rv, offset, attempt, open_attempt>>

\* self._send_report(packet), then the wait for the acknowledgement
SSend ==
    /\ pc = "s_send"
    /\ pc' = "sr_begin"
    /\ stack' = <<"wl_check", "s_done">>
    /\ UNCHANGED <<fieldVars, sharedVars, readerSide, callVars, localVars>>

\* Mutant of SendIrResult: a missing acknowledgement is reported as a failure.
SendIrResult_NeedsAck(acked) == IF acked THEN "True" ELSE "False"

\* return True inside the loop (acknowledged) and return True after it
SendIrResult(acked) == "True"

\* send_ir returns, from the loop or after it
SDone ==
    /\ pc = "s_done"
    /\ Finish(SendIrResult(rv))
    /\ UNCHANGED <<fieldVars, sharedVars, readerSide, finishKeeps>>

(***************************************************************************)
(* receive_ir                                                              *)
(***************************************************************************)
\* self._send_cmd_wait(CMD_RECV_MODE)
CallReceiveIr ==
    /\ Begin("receive_ir")
    /\ result' = "running"
    /\ \E tz \in BOOLEAN : timeout_zero' = tz
    /\ w_cmd_type' = CMD_RECV_MODE
    /\ pc' = "w_begin"
    /\ stack' = <<"r_after_mode">>
    /\ UNCHANGED <<fieldVars, sharedVars, readerSide, a_ir, a_freq, a_mode,
                   w_cmd_id, w_kind, rv, packet, offset, attempt, open_attempt>>

\* return None when the mode switch failed, else self._send_cmd_wait(CMD_CANCEL)
RAfterMode ==
    /\ pc = "r_after_mode"
    /\ IF rv
       THEN /\ w_cmd_type' = CMD_CANCEL
            /\ pc' = "w_begin"
            /\ stack' = <<"r_after_cancel">>
            /\ UNCHANGED <<result, packet, offset, attempt, open_attempt, a_ir,
                           a_freq, w_kind, timeout_zero>>
       ELSE /\ Finish("None")
            /\ UNCHANGED w_cmd_type
    /\ UNCHANGED <<fieldVars, sharedVars, readerSide, op, calls, wire,
                   result_data, rv, w_cmd_id, a_mode, state_at_call, clears>>

\* Mutant of RAfterCancel: the inbox is not cleared before the receive is
\* started.
RAfterCancel_NoClear ==
    /\ pc = "r_after_cancel"
    /\ w_kind' = "data"
    /\ pc' = "r_output"
    /\ UNCHANGED <<fieldVars, sharedVars, readerSide, callVars, stack, w_cmd_id,
                   w_cmd_type, rv, packet, offset, attempt, open_attempt>>

\* the clear of the inbox before the receive is started
RAfterCancel ==
    /\ pc = "r_after_cancel"
    /\ w_kind' = "data"
    /\ pc' = "clr_lock"
    /\ stack' = <<"r_output">>
    /\ UNCHANGED <<fieldVars, sharedVars, readerSide, callVars, w_cmd_id,
                   w_cmd_type, rv, packet, offset, attempt, open_attempt>>

\* self._send_cmd(CMD_OUTPUT), then the wait for IR data
ROutput ==
    /\ pc = "r_output"
    /\ cmd_id' = NextCmdId(cmd_id)
    /\ w_cmd_id' = NextCmdId(cmd_id)
    /\ w_cmd_type' = CMD_OUTPUT
    /\ packet' = CmdPacket(NextCmdId(cmd_id), CMD_OUTPUT)
    /\ pc' = "sr_begin"
    /\ stack' = <<"wl_check", "r_done">>
    /\ UNCHANGED <<dev, packet_idx, device_state, read_active, sharedVars,
                   readerSide, callVars, w_kind, rv, offset, attempt,
                   open_attempt>>

\* return ir_data, or None after the timeout
RDone ==
    /\ pc = "r_done"
    /\ Finish(IF rv THEN "data" ELSE "None")
    /\ UNCHANGED <<fieldVars, sharedVars, readerSide, finishKeeps>>

(***************************************************************************)
(* set_mode                                                                *)
(***************************************************************************)
\* raise ValueError for a mode that is not in cmd_map, else
\* return self._send_cmd_wait(cmd_map[mode])
CallSetMode ==
    /\ Begin("set_mode")
    /\ \E mode \in ModeInputs :
          /\ a_mode' = mode
          /\ IF mode \in DOMAIN cmd_map
             THEN /\ w_cmd_type' = cmd_map[mode]
                  /\ pc' = "w_begin"
                  /\ stack' = <<"m_done">>
                  /\ result' = "running"
                  /\ UNCHANGED <<packet, offset, attempt, open_attempt, a_ir,
                                 a_freq, w_kind, timeout_zero>>
             ELSE /\ Finish("ValueError")
                  /\ UNCHANGED w_cmd_type
    /\ UNCHANGED <<fieldVars, sharedVars, readerSide, w_cmd_id, rv>>

SetModeDone ==
    /\ pc = "m_done"
    /\ Finish(IF rv THEN "True" ELSE "False")
    /\ UNCHANGED <<fieldVars, sharedVars, readerSide, finishKeeps>>

Foreground ==
    \/ CallOpen \/ OpenFind \/ OpenStart \/ OpenTry \/ OpenSent \/ OpenExcept
    \/ CallClose \/ CloseRelease
    \/ CallSendIr \/ SAfterMode \/ SBuild \/ SSend \/ SDone
    \/ CallReceiveIr \/ RAfterMode \/ RAfterCancel \/ ROutput \/ RDone
    \/ CallSetMode \/ SetModeDone
    \/ WBegin \/ WSend \/ WlCheck \/ WlWait \/ WlLock \/ WlScan \/ WlClear
    \/ WlUnlock \/ WlUnlockRet
    \/ ClrLock \/ ClrInbox \/ ClrEvent \/ ClrUnlock
    \/ SrBegin \/ SrWrite

(***************************************************************************)
(* nec.py: the NEC encoder and decoder.                                    *)
(***************************************************************************)
\* Everything but the codec's own variables.
sessionVars == <<fieldVars, inboxVars, lock, reasmVars, readerVars, feed, reads,
                 fgVars, scanned, fresh>>

NEC_PULSE_SIZE == 1125
IR_TICK_SIZE == 32
MAX_BLOCK_SIZE == 127

\* The value None of Python, where an integer may stand instead.
None == -1

\* add_pulse calls of one encode_nec: leader mark and space, 32 marks and
\* spaces, stop mark, trailing space.
NEC_PULSES == 68

\* A 32-bit full_code is held as its 32 bits, least significant first.
\* The 8 bits of a byte:
ByteBits(b) == [i \in 1..8 |-> (b \div (2 ^ (i - 1))) % 2]

\* The byte made of the 8 bits of a full_code from bit number shift on:
\* (full_code >> shift) & 0xFF
ByteAt(bits, shift) ==
    bits[shift + 1] + 2 * bits[shift + 2] + 4 * bits[shift + 3]
        + 8 * bits[shift + 4] + 16 * bits[shift + 5] + 32 * bits[shift + 6]
        + 64 * bits[shift + 7] + 128 * bits[shift + 8]

\* addr | ((~addr & 0xFF) << 8) | (cmd << 16) | ((~cmd & 0xFF) << 24)
FullCode(code) ==
    LET addr == (code \div 256) % 256
        cmd  == code % 256
    IN  ByteBits(addr) \o ByteBits(255 - addr) \o ByteBits(cmd) \o ByteBits(255 - cmd)

\* encode_nec_extended:
\* addr_low | (addr_high << 8) | (cmd << 16) | ((~cmd & 0xFF) << 24)
FullCodeExtended(address, command) ==
    LET addr_low  == address % 256
        addr_high == (address \div 256) % 256
        cmd       == command % 256
    IN  ByteBits(addr_low) \o ByteBits(addr_high) \o ByteBits(cmd) \o ByteBits(255 - cmd)

\* full_code >> 1
ShiftRight(bits) == Tail(bits) \o <<0>>

\* The count argument of the add_pulse call number step (from 0).
PulseCount(step, fc) ==
    IF step = 0 THEN 16
    ELSE IF step = 1 THEN 8
    ELSE IF step = NEC_PULSES - 2 THEN 1
    ELSE IF step = NEC_PULSES - 1 THEN 72
    ELSE IF step % 2 = 0 THEN 1
    ELSE IF fc[1] = 1 THEN 3 ELSE 1

\* The is_high argument of the add_pulse call number step.
PulseHigh(step) == step % 2 = 0

\* full_code is never shifted: every bit sent is the lowest one.
BitSpace_Never(step) == FALSE

\* The call is the space of a data bit: full_code >>= 1 follows it.
BitSpace(step) == step % 2 = 1 /\ 1 < step /\ step < NEC_PULSES - 2

\* The same split, with the flag set on the first byte of a pulse only.
Blocks_FlagFirst(ticks, is_high) ==
    LET n == (ticks + MAX_BLOCK_SIZE - 1) \div MAX_BLOCK_SIZE
    IN  [i \in 1..n |->
            (IF i < n THEN MAX_BLOCK_SIZE ELSE ticks - MAX_BLOCK_SIZE * (n - 1))
                + (IF is_high /\ i = 1 THEN 128 ELSE 0)]

\* while ticks > 0: block = min(ticks, MAX_BLOCK_SIZE); ticks -= block;
\*     if is_high: block |= 0x80; result.append(block)
RECURSIVE Blocks(_, _)
Blocks(ticks, is_high) ==
    IF ticks > 0
    THEN LET block == Min(ticks, MAX_BLOCK_SIZE)
         IN  <<IF is_high THEN block + 128 ELSE block>>
                 \o Blocks(ticks - block, is_high)
    ELSE <<>>

\* sender_time += count * NEC_PULSE_SIZE: the emitted time follows the request.
SenderAdvance_Requested(ticks, requested) == requested

\* sender_time += ticks * IR_TICK_SIZE
SenderAdvance(ticks, requested) == ticks * IR_TICK_SIZE

\* One add_pulse call of encode_nec, and the shift that follows a bit.
AddPulse ==
    /\ nec_pc = "encode"
    /\ nec_step < NEC_PULSES
    /\ LET count == PulseCount(nec_step, full_code)
           pt    == pulse_time + count * NEC_PULSE_SIZE
           ticks == (pt - sender_time) \div IR_TICK_SIZE
       IN  /\ pulse_time' = pt
           /\ sender_time' = sender_time + SenderAdvance(ticks, count * NEC_PULSE_SIZE)
           /\ nec_result' = nec_result \o Blocks(ticks, PulseHigh(nec_step))
    /\ full_code' = IF BitSpace(nec_step) THEN ShiftRight(full_code) ELSE full_code
    /\ nec_step' = nec_step + 1
    /\ UNCHANGED <<nec_pc, nec_code, nec_address, nec_command, decoded, sessionVars, freqVars, guiVars>>

\* return bytes(result)
EncodeReturns ==
    /\ nec_pc = "encode"
    /\ nec_step = NEC_PULSES
    /\ nec_pc' = "decode"
    /\ UNCHANGED <<nec_code, nec_address, nec_command, full_code, pulse_time,
                   sender_time, nec_result, nec_step, decoded, sessionVars, freqVars, guiVars>>

\* timings: (is_high, ticks * IR_TICK_SIZE) for every byte with ticks > 0
Timings(ir_data) ==
    LET kept == SelectSeq(ir_data, LAMBDA b : b % 128 > 0)
    IN  [i \in 1..Len(kept) |-> <<kept[i] >= 128, (kept[i] % 128) * IR_TICK_SIZE>>]

\* leader_idx: index (from 0) of the first timing with is_high and
\* duration > 8000, -1 when there is none
LeaderIdx(timings) ==
    LET found == { i \in 1..Len(timings) : timings[i][1] /\ timings[i][2] > 8000 }
    IN  IF found = {} THEN -1
        ELSE (CHOOSE i \in found : \A j \in found : i <= j) - 1

\* bit = 1 if space_dur > 2000 else 0; full_code |= (bit << i)
DecodedBits(timings, leader) ==
    [i \in 1..32 |-> IF timings[leader + 2 + 2 * (i - 1) + 2][2] > 2000 THEN 1 ELSE 0]

\* decode_nec(ir_data)
decode_nec(ir_data) ==
    IF Len(ir_data) < 50 THEN None
    ELSE LET timings == Timings(ir_data)
             leader  == LeaderIdx(timings)
         IN  IF Len(timings) < 2 THEN None
             ELSE IF leader < 0 \/ leader + 65 >= Len(timings) THEN None
             ELSE IF \E i \in 0..31 :
                        \/ leader + 2 + 2 * i + 1 >= Len(timings)
                        \/ ~timings[leader + 2 + 2 * i + 1][1]
                        \/ timings[leader + 2 + 2 * i + 2][1]
             THEN None
             ELSE LET fc   == DecodedBits(timings, leader)
                      addr == ByteAt(fc, 0)
                      cmd  == ByteAt(fc, 16)
                  IN  addr * 256 + cmd

\* decode_nec(encode_nec(code))
DecodeEncoded ==
    /\ nec_pc = "decode"
    /\ decoded' = decode_nec(nec_result)
    /\ nec_pc' = "done"
    /\ UNCHANGED <<nec_code, nec_address, nec_command, full_code, pulse_time,
                   sender_time, nec_result, nec_step, sessionVars, freqVars, guiVars>>

\* The codec is not in use.
NecUnused ==
    /\ nec_pc = "unused"
    /\ nec_code = 0
    /\ nec_address = None
    /\ nec_command = None
    /\ full_code = <<>>
    /\ pulse_time = 0
    /\ sender_time = 0
    /\ nec_result = <<>>
    /\ nec_step = 0
    /\ decoded = None

(***************************************************************************)
(* protocol.py: the frequency lookups, one applied to an argument and the  *)
(* other to what the first returned.                                       *)
(***************************************************************************)
\* No lookup is in use.
FreqUnused ==
    /\ fq_pc = "unused"
    /\ fq_fn = "none"
    /\ fq_arg = 0
    /\ fq_ret = None
    /\ fq_back = None

\* Frequencies asked for: every entry of the table, and others around them.
FreqArgs ==
    { IR_FREQ_TABLE[i] : i \in 1..Len(IR_FREQ_TABLE) }
        \cup { IR_FREQ_TABLE[i] + 1 : i \in 1..Len(IR_FREQ_TABLE) }
        \cup {-1, 0, 1, 29, 999999}

\* Indexes asked for: every index of the table, and others on both sides.
IndexArgs == (-(Len(IR_FREQ_TABLE) + 2)..(Len(IR_FREQ_TABLE) + 2)) \cup {999, 38000}

\* get_freq_index(freq)
GetFreqIndex ==
    /\ fq_pc = "call"
    /\ fq_fn = "get_freq_index"
    /\ fq_ret' = get_freq_index(fq_arg)
    /\ fq_pc' = "returned"
    /\ UNCHANGED <<fq_fn, fq_arg, fq_back, sessionVars, necVars, guiVars>>

\* get_freq_by_index(index)
GetFreqByIndex ==
    /\ fq_pc = "call"
    /\ fq_fn = "get_freq_by_index"
    /\ fq_ret' = get_freq_by_index(fq_arg)
    /\ fq_pc' = "returned"
    /\ UNCHANGED <<fq_fn, fq_arg, fq_back, sessionVars, necVars, guiVars>>

\* get_freq_by_index(get_freq_index(freq))
FreqOfIndex ==
    /\ fq_pc = "returned"
    /\ fq_fn = "get_freq_index"
    /\ fq_back' = get_freq_by_index(fq_ret)
    /\ fq_pc' = "back"
    /\ UNCHANGED <<fq_fn, fq_arg, fq_ret, sessionVars, necVars, guiVars>>

\* get_freq_index(get_freq_by_index(index))
IndexOfFreq ==
    /\ fq_pc = "returned"
    /\ fq_fn = "get_freq_by_index"
    /\ fq_back' = get_freq_index(fq_ret)
    /\ fq_pc' = "back"
    /\ UNCHANGED <<fq_fn, fq_arg, fq_ret, sessionVars, necVars, guiVars>>

(***************************************************************************)
(* tiqiaa_gui.py: the graphical front-end.  The Tk main thread runs the    *)
(* handlers of the buttons one at a time; _send_loop, learn and connect    *)
(* run in threads of their own.  A call of the driver is a stay at a       *)
(* position: it is entered in one step and left in a later one.            *)
(***************************************************************************)
\* TiqiaaIR instances the front-end creates: the one of __init__ and the
\* one of a Refresh.
MaxConnects == 2

\* _send_loop threads that can be alive at once: _on_press waits 0.05 s for
\* the previous one and starts the next whether it has ended or not.
SendThreads == {"send1", "send2"}

\* The front-end is not in use.
GuiUnused ==
    /\ g_main = "unused"
    /\ g_ir = 0
    /\ g_connects = 0
    /\ g_sending = FALSE
    /\ g_lock = "free"
    /\ g_send = [t \in SendThreads |-> [pc |-> "off", ir |-> 0]]
    /\ g_learn = [pc |-> "off", ir |-> 0]
    /\ g_conn = "off"

\* _on_press with a device: self.sending = False; send_thread.join(timeout=0.05)
OnPress ==
    /\ g_main = "idle"
    /\ g_ir # 0
    /\ \E t \in SendThreads : g_send[t].pc = "off"
    /\ g_sending' = FALSE
    /\ g_main' = "press_join"
    /\ UNCHANGED <<g_ir, g_connects, g_lock, g_send, g_learn, g_conn, sessionVars, necVars, freqVars>>

\* self.sending = True; self.send_thread = threading.Thread(...); start()
OnPressStart ==
    /\ g_main = "press_join"
    /\ g_sending' = TRUE
    /\ LET t == CHOOSE t \in SendThreads : g_send[t].pc = "off"
       IN  g_send' = [g_send EXCEPT ![t] = [pc |-> "tap_lock", ir |-> 0]]
    /\ g_main' = "idle"
    /\ UNCHANGED <<g_ir, g_connects, g_lock, g_learn, g_conn, sessionVars, necVars, freqVars>>

\* _on_release: self.sending = False
OnRelease ==
    /\ g_main = "idle"
    /\ g_sending
    /\ g_sending' = FALSE
    /\ UNCHANGED <<g_main, g_ir, g_connects, g_lock, g_send, g_learn, g_conn, sessionVars, necVars, freqVars>>

\* _send_loop: with self.send_lock (before the tap code and before each
\* full code)
SendAcquire(t) ==
    /\ g_main # "destroyed"
    /\ g_send[t].pc \in {"tap_lock", "full_lock"}
    /\ g_lock = "free"
    /\ g_lock' = t
    /\ g_send' = [g_send EXCEPT ![t].pc =
                    IF g_send[t].pc = "tap_lock" THEN "tap_check" ELSE "full_check"]
    /\ UNCHANGED <<g_main, g_ir, g_connects, g_sending, g_learn, g_conn, sessionVars, necVars, freqVars>>

\* if not self.sending: return (break); if self.ir: self.ir.send_ir(...)
SendChecked(t) ==
    /\ g_main # "destroyed"
    /\ g_send[t].pc \in {"tap_check", "full_check"}
    /\ IF ~g_sending
       THEN /\ g_send' = [g_send EXCEPT ![t] = [pc |-> "off", ir |-> 0]]
            /\ g_lock' = "free"
       ELSE IF g_ir # 0
       THEN /\ g_send' = [g_send EXCEPT ![t] =
                            [pc |-> IF g_send[t].pc = "tap_check"
                                    THEN "tap_send" ELSE "full_send",
                             ir |-> g_ir]]
            /\ UNCHANGED g_lock
       ELSE /\ g_send' = [g_send EXCEPT ![t] = [pc |-> "loop", ir |-> 0]]
            /\ g_lock' = "free"
    /\ UNCHANGED <<g_main, g_ir, g_connects, g_sending, g_learn, g_conn, sessionVars, necVars, freqVars>>

\* send_ir returns, or raises: except Exception: self.ir = None; return (break)
SendIrReturns(t) ==
    /\ g_main # "destroyed"
    /\ g_send[t].pc \in {"tap_send", "full_send"}
    /\ g_lock' = "free"
    /\ \/ /\ g_send' = [g_send EXCEPT ![t] = [pc |-> "loop", ir |-> 0]]
          /\ UNCHANGED g_ir
       \/ /\ g_send' = [g_send EXCEPT ![t] = [pc |-> "off", ir |-> 0]]
          /\ g_ir' = 0
    /\ UNCHANGED <<g_main, g_connects, g_sending, g_learn, g_conn, sessionVars, necVars, freqVars>>

\* time.sleep(...); while self.sending:
SendLoopTest(t) ==
    /\ g_main # "destroyed"
    /\ g_send[t].pc = "loop"
    /\ g_send' = [g_send EXCEPT ![t].pc = IF g_sending THEN "full_lock" ELSE "off"]
    /\ UNCHANGED <<g_main, g_ir, g_connects, g_sending, g_lock, g_learn, g_conn, sessionVars, necVars, freqVars>>

\* _learn_code with a name and a device: threading.Thread(target=learn).start()
LearnCode ==
    /\ g_main = "idle"
    /\ g_ir # 0
    /\ g_learn.pc = "off"
    /\ g_learn' = [pc |-> "start", ir |-> 0]
    /\ UNCHANGED <<g_main, g_ir, g_connects, g_sending, g_lock, g_send, g_conn, sessionVars, necVars, freqVars>>

\* learn: ir_data = self.ir.receive_ir(timeout_sec=15, verbose=False), which
\* raises at once when self.ir is None by now
LearnCall ==
    /\ g_main # "destroyed"
    /\ g_learn.pc = "start"
    /\ g_learn' = IF g_ir # 0 THEN [pc |-> "receive_ir", ir |-> g_ir]
                  ELSE [pc |-> "off", ir |-> 0]
    /\ UNCHANGED <<g_main, g_ir, g_connects, g_sending, g_lock, g_send, g_conn, sessionVars, necVars, freqVars>>

\* receive_ir returns data or None, or raises: the thread ends
LearnReturns ==
    /\ g_main # "destroyed"
    /\ g_learn.pc = "receive_ir"
    /\ g_learn' = [pc |-> "off", ir |-> 0]
    /\ UNCHANGED <<g_main, g_ir, g_connects, g_sending, g_lock, g_send, g_conn, sessionVars, necVars, freqVars>>

\* _refresh: self.sending = False; send_thread.join(timeout=0.2)
Refresh ==
    /\ g_main = "idle"
    /\ g_connects < MaxConnects
    /\ g_conn = "off"
    /\ g_sending' = FALSE
    /\ g_main' = "refresh_lock"
    /\ UNCHANGED <<g_ir, g_connects, g_lock, g_send, g_learn, g_conn, sessionVars, necVars, freqVars>>

\* with self.send_lock: if self.ir: self.ir.close()
RefreshLocked ==
    /\ g_main = "refresh_lock"
    /\ g_lock = "free"
    /\ g_lock' = "main"
    /\ g_main' = IF g_ir # 0 THEN "refresh_close" ELSE "refresh_unlock"
    /\ UNCHANGED <<g_ir, g_connects, g_sending, g_send, g_learn, g_conn, sessionVars, necVars, freqVars>>

\* close() returns or raises (except: pass); self.ir = None
RefreshClosed ==
    /\ g_main = "refresh_close"
    /\ g_ir' = 0
    /\ g_main' = "refresh_unlock"
    /\ UNCHANGED <<g_connects, g_sending, g_lock, g_send, g_learn, g_conn, sessionVars, necVars, freqVars>>

\* the lock is released; self._connect_device() starts the connect thread
RefreshDone ==
    /\ g_main = "refresh_unlock"
    /\ g_lock' = "free"
    /\ g_conn' = "assign"
    /\ g_main' = "idle"
    /\ UNCHANGED <<g_ir, g_connects, g_sending, g_send, g_learn, sessionVars, necVars, freqVars>>

\* connect: self.ir = TiqiaaIR()
ConnectAssign ==
    /\ g_main # "destroyed"
    /\ g_conn = "assign"
    /\ g_connects' = g_connects + 1
    /\ g_ir' = g_connects + 1
    /\ g_conn' = "open"
    /\ UNCHANGED <<g_main, g_sending, g_lock, g_send, g_learn, sessionVars, necVars, freqVars>>

\* if self.ir.open(verbose=False): ... else: self.ir = None
ConnectOpened ==
    /\ g_main # "destroyed"
    /\ g_conn = "open"
    /\ \/ UNCHANGED g_ir
       \/ g_ir' = 0
    /\ g_conn' = "off"
    /\ UNCHANGED <<g_main, g_connects, g_sending, g_lock, g_send, g_learn, sessionVars, necVars, freqVars>>

\* on_close: self.sending = False; send_thread.join(timeout=0.2)
OnClose ==
    /\ g_main = "idle"
    /\ g_sending' = FALSE
    /\ g_main' = "close_lock"
    /\ UNCHANGED <<g_ir, g_connects, g_lock, g_send, g_learn, g_conn, sessionVars, necVars, freqVars>>

\* with self.send_lock: if self.ir: self.ir.close()
OnCloseLocked ==
    /\ g_main = "close_lock"
    /\ g_lock = "free"
    /\ g_lock' = "main"
    /\ g_main' = IF g_ir # 0 THEN "close_close" ELSE "close_unlock"
    /\ UNCHANGED <<g_ir, g_connects, g_sending, g_send, g_learn, g_conn, sessionVars, necVars, freqVars>>

\* close() returns
OnCloseClosed ==
    /\ g_main = "close_close"
    /\ g_main' = "close_unlock"
    /\ UNCHANGED <<g_ir, g_connects, g_sending, g_lock, g_send, g_learn, g_conn, sessionVars, necVars, freqVars>>

\* the lock is released; self.root.destroy(): the main loop ends and the
\* daemon threads end with the process
OnCloseDone ==
    /\ g_main = "close_unlock"
    /\ g_lock' = "free"
    /\ g_main' = "destroyed"
    /\ UNCHANGED <<g_ir, g_connects, g_sending, g_send, g_learn, g_conn, sessionVars, necVars, freqVars>>

(***************************************************************************)
(* The state after construction (__init__).                                *)
(***************************************************************************)
Init ==
    /\ dev = FALSE
    /\ packet_idx = 0
    /\ cmd_id = 0
    /\ device_state = 0
    /\ read_active = FALSE
    /\ received_packets = <<>>
    /\ packet_event = FALSE
    /\ lock = 0
    /\ recv_buffer = <<>>
    /\ recv_packet_idx = 0
    /\ recv_frag_count = 0
    /\ recv_last_frag = 0
    /\ r_pc = [r \in Readers |-> "off"]
    /\ r_data = [r \in Readers |-> <<>>]
    /\ feed = "replies"
    /\ reads = 0
    /\ op = "none"
    /\ pc = "idle"
    /\ stack = <<>>
    /\ result = "none"
    /\ result_data = <<>>
    /\ a_ir = <<>>
    /\ a_freq = 0
    /\ calls = 0
    /\ w_cmd_id = 0
    /\ w_cmd_type = 0
    /\ w_kind = "none"
    /\ timeout_zero = FALSE
    /\ a_mode = ""
    /\ state_at_call = 0
    /\ clears = 0
    /\ rv = FALSE
    /\ packet = <<>>
    /\ offset = 0
    /\ attempt = 0
    /\ open_attempt = 0
    /\ wire = <<>>
    /\ scanned = 0
    /\ fresh = 0
    /\ GuiUnused
    /\ FreqUnused
    /\ NecUnused

Next == Foreground \/ \E r \in Readers : Reader(r)

Spec == Init /\ [][Next]_vars

(***************************************************************************)
(* The life cycle alone: only open() and close() are called, up to         *)
(* MaxSessionCalls times, so that a session can be closed and opened       *)
(* again.  A started operation and every reader thread keep being          *)
(* scheduled; nothing obliges the caller to call.  The device sends         *)
(* nothing, so every read of a reader ends in a timeout or an error.       *)
(***************************************************************************)
InitSessions ==
    /\ dev = FALSE
    /\ packet_idx = 0
    /\ cmd_id = 0
    /\ device_state = 0
    /\ read_active = FALSE
    /\ received_packets = <<>>
    /\ packet_event = FALSE
    /\ lock = 0
    /\ recv_buffer = <<>>
    /\ recv_packet_idx = 0
    /\ recv_frag_count = 0
    /\ recv_last_frag = 0
    /\ r_pc = [r \in Readers |-> "off"]
    /\ r_data = [r \in Readers |-> <<>>]
    /\ feed = "silent"
    /\ reads = 0
    /\ op = "none"
    /\ pc = "idle"
    /\ stack = <<>>
    /\ result = "none"
    /\ result_data = <<>>
    /\ a_ir = <<>>
    /\ a_freq = 0
    /\ calls = 0
    /\ w_cmd_id = 0
    /\ w_cmd_type = 0
    /\ w_kind = "none"
    /\ timeout_zero = FALSE
    /\ a_mode = ""
    /\ state_at_call = 0
    /\ clears = 0
    /\ rv = FALSE
    /\ packet = <<>>
    /\ offset = 0
    /\ attempt = 0
    /\ open_attempt = 0
    /\ wire = <<>>
    /\ scanned = 0
    /\ fresh = 0
    /\ GuiUnused
    /\ FreqUnused
    /\ NecUnused

SessionOpen == BeginWithin("open", MaxSessionCalls) /\ OpenEntry

SessionClose == BeginWithin("close", MaxSessionCalls) /\ CloseEntry

SessionSteps ==
    \/ OpenFind \/ OpenStart \/ OpenTry \/ OpenSent \/ OpenExcept
    \/ CloseRelease
    \/ SrBegin \/ SrWrite

\* The reader of a device that sends nothing: the loop test and the read.
ReaderQuiet(r) == ReaderLoop(r) \/ ReaderRead(r)

NextSessions ==
    \/ SessionOpen \/ SessionClose
    \/ SessionSteps
    \/ \E r \in Readers : ReaderQuiet(r)

SpecSessions ==
    /\ InitSessions
    /\ [][NextSessions]_vars
    /\ WF_vars(SessionSteps)
    /\ \A r \in Readers : WF_vars(ReaderQuiet(r))

(***************************************************************************)
(* The identifier counters near their wrap.  Every set_mode call on an     *)
(* instance that was never opened draws a command_id and a packet_index    *)
(* and then fails on the missing handle, leaving every other field as      *)
(* __init__ set it; 127 and 15 being coprime, every pair of counter values *)
(* is reached that way, and the behaviours below start from such pairs.    *)
(* The device sends nothing.                                               *)
(***************************************************************************)
IdStarts ==
    {<<0, 0>>} \cup
    { <<c, p>> : c \in {CMD_ID_MOD - 1, CMD_ID_MOD},
                 p \in {PACKET_IDX_MOD - 1, PACKET_IDX_MOD} }

InitIds ==
    /\ dev = FALSE
    /\ \E start \in IdStarts : cmd_id = start[1] /\ packet_idx = start[2]
    /\ device_state = 0
    /\ read_active = FALSE
    /\ received_packets = <<>>
    /\ packet_event = FALSE
    /\ lock = 0
    /\ recv_buffer = <<>>
    /\ recv_packet_idx = 0
    /\ recv_frag_count = 0
    /\ recv_last_frag = 0
    /\ r_pc = [r \in Readers |-> "off"]
    /\ r_data = [r \in Readers |-> <<>>]
    /\ feed = "silent"
    /\ reads = 0
    /\ op = "none"
    /\ pc = "idle"
    /\ stack = <<>>
    /\ result = "none"
    /\ result_data = <<>>
    /\ a_ir = <<>>
    /\ a_freq = 0
    /\ calls = 0
    /\ w_cmd_id = 0
    /\ w_cmd_type = 0
    /\ w_kind = "none"
    /\ timeout_zero = FALSE
    /\ a_mode = ""
    /\ state_at_call = 0
    /\ clears = 0
    /\ rv = FALSE
    /\ packet = <<>>
    /\ offset = 0
    /\ attempt = 0
    /\ open_attempt = 0
    /\ wire = <<>>
    /\ scanned = 0
    /\ fresh = 0
    /\ GuiUnused
    /\ FreqUnused
    /\ NecUnused

\* Every step a session with a silent device can take: no wait finds a
\* packet, so no scan of the inbox and no step after a confirmed receive mode.
NextIds ==
    \/ CallOpen \/ OpenFind \/ OpenStart \/ OpenTry \/ OpenSent \/ OpenExcept
    \/ CallClose \/ CloseRelease
    \/ CallSendIr \/ SAfterMode \/ SBuild \/ SSend \/ SDone
    \/ CallReceiveIr \/ RAfterMode
    \/ CallSetMode \/ SetModeDone
    \/ WBegin \/ WSend \/ WlCheck \/ WlWait
    \/ ClrLock \/ ClrInbox \/ ClrEvent \/ ClrUnlock
    \/ SrBegin \/ SrWrite
    \/ \E r \in Readers : ReaderQuiet(r)

SpecIds == InitIds /\ [][NextIds]_vars

(***************************************************************************)
(* _send_report alone: on a session opened on a silent device the framer   *)
(* is called directly with logical packets of chosen lengths.              *)
(***************************************************************************)
\* Packet lengths around the fragment size and its multiples.
FrameLens == {1, 55, 56, 57, 112, 113}

\* A packet of n bytes, none of them zero.
FramePackets == { [i \in 1..n |-> ((i - 1) % 251) + 1] : n \in FrameLens }

\* self._send_report(data)
CallSendReport ==
    /\ Begin("_send_report")
    /\ \E data \in FramePackets : packet' = data
    /\ pc' = "sr_begin"
    /\ stack' = <<"sr_done">>
    /\ result' = "running"
    /\ UNCHANGED <<fieldVars, sharedVars, readerSide, a_ir, a_freq, timeout_zero,
                   a_mode, w_cmd_id, w_cmd_type, w_kind, rv, offset, attempt,
                   open_attempt>>

\* _send_report returns
SendReportDone ==
    /\ pc = "sr_done"
    /\ Finish("None")
    /\ UNCHANGED <<fieldVars, sharedVars, readerSide, finishKeeps>>

NextFrame ==
    \/ CallOpen \/ OpenFind \/ OpenStart \/ OpenTry \/ OpenSent \/ OpenExcept
    \/ CallSendReport \/ SendReportDone
    \/ SrBegin \/ SrWrite
    \/ \E r \in Readers : ReaderQuiet(r)

SpecFrame == InitSessions /\ [][NextFrame]_vars

(***************************************************************************)
(* The NEC codec alone: encode_nec runs on a code, pulse by pulse, and     *)
(* decode_nec is applied to what it returned.  No session is in use.       *)
(***************************************************************************)
\* Address and command bytes the codes are made of.
NecBytes == {0, 1, 85, 128, 170, 255}

NecCodes == { a * 256 + c : a \in NecBytes, c \in NecBytes }

InitNec ==
    /\ dev = FALSE
    /\ packet_idx = 0
    /\ cmd_id = 0
    /\ device_state = 0
    /\ read_active = FALSE
    /\ received_packets = <<>>
    /\ packet_event = FALSE
    /\ lock = 0
    /\ recv_buffer = <<>>
    /\ recv_packet_idx = 0
    /\ recv_frag_count = 0
    /\ recv_last_frag = 0
    /\ r_pc = [r \in Readers |-> "off"]
    /\ r_data = [r \in Readers |-> <<>>]
    /\ feed = "replies"
    /\ reads = 0
    /\ op = "none"
    /\ pc = "idle"
    /\ stack = <<>>
    /\ result = "none"
    /\ result_data = <<>>
    /\ a_ir = <<>>
    /\ a_freq = 0
    /\ calls = 0
    /\ w_cmd_id = 0
    /\ w_cmd_type = 0
    /\ w_kind = "none"
    /\ timeout_zero = FALSE
    /\ a_mode = ""
    /\ state_at_call = 0
    /\ clears = 0
    /\ rv = FALSE
    /\ packet = <<>>
    /\ offset = 0
    /\ attempt = 0
    /\ open_attempt = 0
    /\ wire = <<>>
    /\ scanned = 0
    /\ fresh = 0
    /\ GuiUnused
    /\ FreqUnused
    /\ nec_pc = "encode"
    /\ nec_code \in NecCodes
    /\ nec_address = None
    /\ nec_command = None
    /\ full_code = FullCode(nec_code)
    /\ pulse_time = 0
    /\ sender_time = 0
    /\ nec_result = <<>>
    /\ nec_step = 0
    /\ decoded = None

NextNec ==
    \/ AddPulse
    \/ EncodeReturns
    \/ DecodeEncoded

SpecNec == InitNec /\ [][NextNec]_vars

(***************************************************************************)
(* The same with encode_nec_extended as the encoder.                       *)
(***************************************************************************)
\* 16-bit addresses: some whose high byte is the complement of the low
\* byte, most whose high byte is not.
NecAddresses == { h * 256 + l : h \in {0, 1, 85, 255}, l \in {0, 1, 170, 255} }

InitNecExtended ==
    /\ dev = FALSE
    /\ packet_idx = 0
    /\ cmd_id = 0
    /\ device_state = 0
    /\ read_active = FALSE
    /\ received_packets = <<>>
    /\ packet_event = FALSE
    /\ lock = 0
    /\ recv_buffer = <<>>
    /\ recv_packet_idx = 0
    /\ recv_frag_count = 0
    /\ recv_last_frag = 0
    /\ r_pc = [r \in Readers |-> "off"]
    /\ r_data = [r \in Readers |-> <<>>]
    /\ feed = "replies"
    /\ reads = 0
    /\ op = "none"
    /\ pc = "idle"
    /\ stack = <<>>
    /\ result = "none"
    /\ result_data = <<>>
    /\ a_ir = <<>>
    /\ a_freq = 0
    /\ calls = 0
    /\ w_cmd_id = 0
    /\ w_cmd_type = 0
    /\ w_kind = "none"
    /\ timeout_zero = FALSE
    /\ a_mode = ""
    /\ state_at_call = 0
    /\ clears = 0
    /\ rv = FALSE
    /\ packet = <<>>
    /\ offset = 0
    /\ attempt = 0
    /\ open_attempt = 0
    /\ wire = <<>>
    /\ scanned = 0
    /\ fresh = 0
    /\ GuiUnused
    /\ FreqUnused
    /\ nec_pc = "encode"
    /\ nec_code = 0
    /\ nec_address \in NecAddresses
    /\ nec_command \in NecBytes
    /\ full_code = FullCodeExtended(nec_address, nec_command)
    /\ pulse_time = 0
    /\ sender_time = 0
    /\ nec_result = <<>>
    /\ nec_step = 0
    /\ decoded = None

SpecNecExtended == InitNecExtended /\ [][NextNec]_vars

(***************************************************************************)
(* The frequency lookups alone.  No session is in use.                     *)
(***************************************************************************)
InitFreq ==
    /\ dev = FALSE
    /\ packet_idx = 0
    /\ cmd_id = 0
    /\ device_state = 0
    /\ read_active = FALSE
    /\ received_packets = <<>>
    /\ packet_event = FALSE
    /\ lock = 0
    /\ recv_buffer = <<>>
    /\ recv_packet_idx = 0
    /\ recv_frag_count = 0
    /\ recv_last_frag = 0
    /\ r_pc = [r \in Readers |-> "off"]
    /\ r_data = [r \in Readers |-> <<>>]
    /\ feed = "replies"
    /\ reads = 0
    /\ op = "none"
    /\ pc = "idle"
    /\ stack = <<>>
    /\ result = "none"
    /\ result_data = <<>>
    /\ a_ir = <<>>
    /\ a_freq = 0
    /\ calls = 0
    /\ w_cmd_id = 0
    /\ w_cmd_type = 0
    /\ w_kind = "none"
    /\ timeout_zero = FALSE
    /\ a_mode = ""
    /\ state_at_call = 0
    /\ clears = 0
    /\ rv = FALSE
    /\ packet = <<>>
    /\ offset = 0
    /\ attempt = 0
    /\ open_attempt = 0
    /\ wire = <<>>
    /\ scanned = 0
    /\ fresh = 0
    /\ GuiUnused
    /\ fq_pc = "call"
    /\ \/ fq_fn = "get_freq_index" /\ fq_arg \in FreqArgs
       \/ fq_fn = "get_freq_by_index" /\ fq_arg \in IndexArgs
    /\ fq_ret = None
    /\ fq_back = None
    /\ NecUnused

NextFreq ==
    \/ GetFreqIndex
    \/ GetFreqByIndex
    \/ FreqOfIndex
    \/ IndexOfFreq

SpecFreq == InitFreq /\ [][NextFreq]_vars

(***************************************************************************)
(* Learning, then sending: open(), receive_ir() and send_ir() are called   *)
(* in that order on one instance, the device answering as in Spec.         *)
(***************************************************************************)
InitModes ==
    /\ dev = FALSE
    /\ packet_idx = 0
    /\ cmd_id = 0
    /\ device_state = 0
    /\ read_active = FALSE
    /\ received_packets = <<>>
    /\ packet_event = FALSE
    /\ lock = 0
    /\ recv_buffer = <<>>
    /\ recv_packet_idx = 0
    /\ recv_frag_count = 0
    /\ recv_last_frag = 0
    /\ r_pc = [r \in Readers |-> "off"]
    /\ r_data = [r \in Readers |-> <<>>]
    /\ feed = "replies"
    /\ reads = 0
    /\ op = "none"
    /\ pc = "idle"
    /\ stack = <<>>
    /\ result = "none"
    /\ result_data = <<>>
    /\ a_ir = <<>>
    /\ a_freq = 0
    /\ calls = 0
    /\ w_cmd_id = 0
    /\ w_cmd_type = 0
    /\ w_kind = "none"
    /\ timeout_zero = FALSE
    /\ a_mode = ""
    /\ state_at_call = 0
    /\ clears = 0
    /\ rv = FALSE
    /\ packet = <<>>
    /\ offset = 0
    /\ attempt = 0
    /\ open_attempt = 0
    /\ wire = <<>>
    /\ scanned = 0
    /\ fresh = 0
    /\ GuiUnused
    /\ FreqUnused
    /\ NecUnused

ModesOpen == calls = 0 /\ CallOpen

ModesReceiveIr == calls = 1 /\ CallReceiveIr

ModesSendIr == calls = 2 /\ BeginWithin("send_ir", MaxSessionCalls) /\ SendIrEntry

NextModes ==
    \/ ModesOpen \/ ModesReceiveIr \/ ModesSendIr
    \/ OpenFind \/ OpenStart \/ OpenTry \/ OpenSent \/ OpenExcept
    \/ SAfterMode \/ SBuild \/ SSend \/ SDone
    \/ RAfterMode \/ RAfterCancel \/ ROutput \/ RDone
    \/ WBegin \/ WSend \/ WlCheck \/ WlWait \/ WlLock \/ WlScan \/ WlClear
    \/ WlUnlock \/ WlUnlockRet
    \/ ClrLock \/ ClrInbox \/ ClrEvent \/ ClrUnlock
    \/ SrBegin \/ SrWrite
    \/ \E r \in Readers : Reader(r)

SpecModes == InitModes /\ [][NextModes]_vars

(***************************************************************************)
(* A session reopened: open(), close() and open() are called in that order *)
(* while the device sends the two fragments of one packet.                 *)
(***************************************************************************)
InitReopen ==
    /\ dev = FALSE
    /\ packet_idx = 0
    /\ cmd_id = 0
    /\ device_state = 0
    /\ read_active = FALSE
    /\ received_packets = <<>>
    /\ packet_event = FALSE
    /\ lock = 0
    /\ recv_buffer = <<>>
    /\ recv_packet_idx = 0
    /\ recv_frag_count = 0
    /\ recv_last_frag = 0
    /\ r_pc = [r \in Readers |-> "off"]
    /\ r_data = [r \in Readers |-> <<>>]
    /\ feed = "pair"
    /\ reads = 0
    /\ op = "none"
    /\ pc = "idle"
    /\ stack = <<>>
    /\ result = "none"
    /\ result_data = <<>>
    /\ a_ir = <<>>
    /\ a_freq = 0
    /\ calls = 0
    /\ w_cmd_id = 0
    /\ w_cmd_type = 0
    /\ w_kind = "none"
    /\ timeout_zero = FALSE
    /\ a_mode = ""
    /\ state_at_call = 0
    /\ clears = 0
    /\ rv = FALSE
    /\ packet = <<>>
    /\ offset = 0
    /\ attempt = 0
    /\ open_attempt = 0
    /\ wire = <<>>
    /\ scanned = 0
    /\ fresh = 0
    /\ GuiUnused
    /\ FreqUnused
    /\ NecUnused

ReopenOpen == calls \in {0, 2} /\ SessionOpen

ReopenClose == calls = 1 /\ SessionClose

NextReopen ==
    \/ ReopenOpen \/ ReopenClose
    \/ SessionSteps
    \/ \E r \in Readers : Reader(r)

SpecReopen == InitReopen /\ [][NextReopen]_vars

(***************************************************************************)
(* The graphical front-end alone, from IRRemoteGUI.__init__ on: the        *)
(* connect thread has been started, no button was pressed yet.             *)
(***************************************************************************)
InitGui ==
    /\ dev = FALSE
    /\ packet_idx = 0
    /\ cmd_id = 0
    /\ device_state = 0
    /\ read_active = FALSE
    /\ received_packets = <<>>
    /\ packet_event = FALSE
    /\ lock = 0
    /\ recv_buffer = <<>>
    /\ recv_packet_idx = 0
    /\ recv_frag_count = 0
    /\ recv_last_frag = 0
    /\ r_pc = [r \in Readers |-> "off"]
    /\ r_data = [r \in Readers |-> <<>>]
    /\ feed = "replies"
    /\ reads = 0
    /\ op = "none"
    /\ pc = "idle"
    /\ stack = <<>>
    /\ result = "none"
    /\ result_data = <<>>
    /\ a_ir = <<>>
    /\ a_freq = 0
    /\ calls = 0
    /\ w_cmd_id = 0
    /\ w_cmd_type = 0
    /\ w_kind = "none"
    /\ timeout_zero = FALSE
    /\ a_mode = ""
    /\ state_at_call = 0
    /\ clears = 0
    /\ rv = FALSE
    /\ packet = <<>>
    /\ offset = 0
    /\ attempt = 0
    /\ open_attempt = 0
    /\ wire = <<>>
    /\ scanned = 0
    /\ fresh = 0
    /\ g_main = "idle"
    /\ g_ir = 0
    /\ g_connects = 0
    /\ g_sending = FALSE
    /\ g_lock = "free"
    /\ g_send = [t \in SendThreads |-> [pc |-> "off", ir |-> 0]]
    /\ g_learn = [pc |-> "off", ir |-> 0]
    /\ g_conn = "assign"
    /\ FreqUnused
    /\ NecUnused

NextGui ==
    \/ OnPress \/ OnPressStart \/ OnRelease
    \/ LearnCode \/ LearnCall \/ LearnReturns
    \/ Refresh \/ RefreshLocked \/ RefreshClosed \/ RefreshDone
    \/ ConnectAssign \/ ConnectOpened
    \/ OnClose \/ OnCloseLocked \/ OnCloseClosed \/ OnCloseDone
    \/ \E t \in SendThreads :
          SendAcquire(t) \/ SendChecked(t) \/ SendIrReturns(t) \/ SendLoopTest(t)

SpecGui == InitGui /\ [][NextGui]_vars

(***************************************************************************)
(* The reassembler alone: a session whose reader runs and is fed arbitrary *)
(* inbound reads, with no foreground call in progress.                     *)
(***************************************************************************)
InitReasm ==
    /\ dev = TRUE
    /\ packet_idx = 0
    /\ cmd_id = 0
    /\ device_state = 0
    /\ read_active = TRUE
    /\ received_packets = <<>>
    /\ packet_event = FALSE
    /\ lock = 0
    /\ recv_buffer = <<>>
    /\ recv_packet_idx = 0
    /\ recv_frag_count = 0
    /\ recv_last_frag = 0
    /\ r_pc = [r \in Readers |-> IF r = 1 THEN "loop" ELSE "off"]
    /\ r_data = [r \in Readers |-> <<>>]
    /\ feed = "frags"
    /\ reads = 0
    /\ op = "none"
    /\ pc = "idle"
    /\ stack = <<>>
    /\ result = "none"
    /\ result_data = <<>>
    /\ a_ir = <<>>
    /\ a_freq = 0
    /\ calls = 0
    /\ w_cmd_id = 0
    /\ w_cmd_type = 0
    /\ w_kind = "none"
    /\ timeout_zero = FALSE
    /\ a_mode = ""
    /\ state_at_call = 0
    /\ clears = 0
    /\ rv = FALSE
    /\ packet = <<>>
    /\ offset = 0
    /\ attempt = 0
    /\ open_attempt = 0
    /\ wire = <<>>
    /\ scanned = 0
    /\ fresh = 0
    /\ GuiUnused
    /\ FreqUnused
    /\ NecUnused

NextReasm == \E r \in Readers : Reader(r)

SpecReasm == InitReasm /\ [][NextReasm]_vars

(***************************************************************************)
(* Claims about the reassembler (checked under SpecReasm).                 *)
(***************************************************************************)
\* The payload a header announces: data[5 : 5 + frag_size - 3].
AnnouncedPayload(d) == SubSeq(d, 6, Min(Len(d), d[2] + 2))

\* A read that passes the discard rules: 5 header bytes, inbound tag, size 1..56.
WellFormedFragment(d) ==
    Len(d) >= 5 /\ d[1] = 1 /\ d[2] - 3 >= 1 /\ d[2] - 3 <= 56

\* The step in which reader r reads bytes and runs _process_recv_data on them.
ProcessesFragment(r) == r_pc[r] = "read" /\ r_pc'[r] # "read" /\ r_data'[r] # <<>>

\* C1: a fragment whose fragment_index is not 1 is appended only when its
\* packet_index is the in-progress one and its fragment_index is last-received
\* + 1; every other non-first fragment changes neither the buffer, the expected
\* packet_index, the expected fragment_count, the last-received index nor the
\* inbox and its signal, and the reader goes on to its next read without
\* publishing.
C1_AppendRule ==
    [][\A r \in Readers :
          (ProcessesFragment(r) /\ WellFormedFragment(r_data'[r])
              /\ r_data'[r][5] # 1) =>
              IF /\ r_data'[r][3] = recv_packet_idx
                 /\ r_data'[r][5] = recv_last_frag + 1
              THEN /\ recv_buffer' = recv_buffer \o AnnouncedPayload(r_data'[r])
                   /\ recv_last_frag' = r_data'[r][5]
                   /\ recv_packet_idx' = recv_packet_idx
                   /\ recv_frag_count' = recv_frag_count
              ELSE /\ UNCHANGED <<recv_buffer, recv_packet_idx, recv_frag_count,
                                  recv_last_frag, received_packets, packet_event>>
                   /\ r_pc'[r] = "loop"
      ]_vars

\* C1 witness: a second fragment was appended to a first one and the packet
\* it completed was published.
C1_Witness ==
    /\ recv_last_frag = 2
    /\ Len(recv_buffer) >= 6
    /\ received_packets # <<>>

\* The first two bytes are "S","T" (0x5453 little-endian) and the last two
\* are "E","N" (0x4E45 little-endian).
HasBothMarkers(buf) ==
    /\ Len(buf) >= 2
    /\ buf[1] = 83 /\ buf[2] = 84
    /\ buf[Len(buf) - 1] = 69 /\ buf[Len(buf)] = 78

\* last-received has reached a positive fragment_count
BufferCompleted == recv_frag_count > 0 /\ recv_last_frag = recv_frag_count

\* C2: the inbox grows, and the signal is raised, only for a buffer that is
\* complete and carries both markers, and what is appended is its
\* marker-stripped middle; a buffer that completes without both markers sends
\* the reader to the reset of the reassembly state, with the inbox and the
\* signal as they were.
C2_InboxValidity ==
    /\ [](\A r \in Readers :
            InPublish(r) => (BufferCompleted /\ HasBothMarkers(recv_buffer)))
    /\ [][/\ (received_packets' # received_packets) =>
                /\ \E r \in Readers : InPublish(r)
                /\ received_packets' =
                      Append(received_packets,
                             SubSeq(recv_buffer, 3, Len(recv_buffer) - 2))
          /\ (packet_event' /\ ~packet_event) => \E r \in Readers : InPublish(r)
          /\ \A r \in Readers :
                (ProcessesFragment(r) /\ BufferCompleted'
                    /\ ~HasBothMarkers(recv_buffer')) =>
                    /\ r_pc'[r] = "reset"
                    /\ UNCHANGED <<received_packets, packet_event>>
         ]_vars

\* C2 witness: a logical packet (command_id 5, send-mode type) is in the inbox
\* and the signal is raised.
C2_Witness ==
    /\ packet_event
    /\ \E i \in 1..Len(received_packets) : received_packets[i] = <<5, CMD_SEND_MODE>>

(***************************************************************************)
(* Claims about a session (checked under Spec).                            *)
(***************************************************************************)
\* pkt starts with the command_id and the command_type of a request.
IsReplyTo(pkt, id, type) == Len(pkt) >= 2 /\ pkt[1] = id /\ pkt[2] = type

\* Where the caller of _send_cmd_wait is when the helper has returned.
AfterCmdWait == {"s_after_mode", "r_after_mode", "r_after_cancel", "m_done"}

\* C3: a command wait reports success only if the inbox, all of it published
\* after the waiter's clear, holds a packet whose first byte is the command_id
\* assigned to the request and whose second byte is the request's
\* command_type; in the step that found it, a reply of three bytes or more has
\* set DeviceState to its third byte. A packet with another command_id or
\* another command_type never yields success.
C3_ReplyCorrelation ==
    /\ (pc \in AfterCmdWait /\ rv) =>
          /\ w_cmd_id = cmd_id
          /\ fresh = Len(received_packets)
          /\ \E i \in 1..Len(received_packets) :
                IsReplyTo(received_packets[i], w_cmd_id, w_cmd_type)
    /\ (pc = "wl_unlock_ret" /\ w_kind = "cmd") =>
          \E i \in 1..Len(received_packets) :
             /\ IsReplyTo(received_packets[i], w_cmd_id, w_cmd_type)
             /\ \A j \in 1..(i - 1) :
                   ~IsReplyTo(received_packets[j], w_cmd_id, w_cmd_type)
             /\ Len(received_packets[i]) >= 3 =>
                   device_state = received_packets[i][3]

\* C3 witness: set_mode("receive") was confirmed by the second packet of the
\* inbox, after a first packet that did not answer it, and the state byte of
\* the reply (19) became the DeviceState.
C3_Witness ==
    /\ pc = "m_done"
    /\ rv
    /\ device_state = STATE_RECV
    /\ Len(received_packets) = 2
    /\ ~IsReplyTo(received_packets[1], w_cmd_id, w_cmd_type)

\* What the wait loop in progress returns on.
WantedBy(pkt) ==
    IF w_kind = "cmd" THEN IsReplyTo(pkt, w_cmd_id, w_cmd_type)
    ELSE IF w_kind = "ack" THEN IsReplyTo(pkt, w_cmd_id, CMD_OUTPUT)
    ELSE Len(pkt) >= 2 /\ pkt[2] = CMD_DATA

\* C4: whenever the signal is clear and the lock is free, every packet in the
\* inbox has been scanned by the waiter; hence a waiter that is between two
\* iterations of its loop with the signal clear has no wanted reply sitting
\* unseen in the inbox.
C4_NoLostNotification ==
    (~packet_event /\ lock = 0) =>
        /\ scanned = Len(received_packets)
        /\ pc \in {"wl_check", "wl_wait"} =>
              \A i \in 1..Len(received_packets) : ~WantedBy(received_packets[i])

\* C4 witness: the waiter scanned a packet that was not its reply, cleared the
\* signal, released the lock and waits again.
C4_Witness ==
    /\ ~packet_event
    /\ lock = 0
    /\ pc = "wl_wait"
    /\ Len(received_packets) >= 1
    /\ scanned = Len(received_packets)

\* A step of the foreground in which a write of the current fragment failed.
WriteFails ==
    /\ pc = "sr_write"
    /\ dev
    /\ wire' = wire
    /\ (attempt' # attempt \/ pc' # pc)

\* A step in which the current fragment was written.
WriteSucceeds == pc = "sr_write" /\ wire' # wire

\* C5: a fragment write is attempted at most 5 times; a failure of attempts
\* 1 to 4 is followed by a retry of the same fragment, the first success ends
\* the retries of the fragment (the next fragment starts at attempt 1), and a
\* failure of the 5th attempt leaves _send_report as that transport error:
\* out of send_ir, receive_ir and set_mode it is the operation's outcome,
\* open() and close() catch it.
C5_RetryBudget ==
    /\ [](pc = "sr_write" => attempt + 1 <= 5)
    /\ [][/\ (WriteFails /\ attempt + 1 < 5) =>
                /\ pc' = "sr_write"
                /\ attempt' = attempt + 1
                /\ UNCHANGED <<packet, offset, packet_idx, stack>>
          /\ (WriteFails /\ attempt + 1 = 5) =>
                IF op \in {"send_ir", "receive_ir", "set_mode"}
                THEN pc' = "idle" /\ result' \in {"USBError", "USBTimeoutError"}
                ELSE IF op = "open" THEN pc' = "open_except"
                ELSE pc' = "close_release"
          /\ WriteSucceeds =>
                /\ wire' = Append(wire, Report(packet, packet_idx, offset))
                /\ attempt' = 0
                /\ offset' = offset + 56
                /\ pc' # "idle"
         ]_vars

\* C5 witness: send_ir wrote a report and then ended with the timeout error
\* of a fifth failed attempt.
C5_Witness ==
    /\ op = "send_ir"
    /\ pc = "idle"
    /\ result = "USBTimeoutError"
    /\ wire # <<>>

\* C6: open() returns true only after a set-send-mode attempt was confirmed
\* by a matching reply, so an open() whose attempts receive no matching reply
\* does not return true.
C6_OpenConfirmed ==
    (op = "open" /\ pc = "idle" /\ result = "True") =>
        \E i \in 1..Len(received_packets) :
            IsReplyTo(received_packets[i], cmd_id, CMD_SEND_MODE)

\* C7: each change of DeviceState happens in the step of a command wait that
\* matched a reply (command_id and command_type) carrying a state byte, and is
\* a change to that byte; no operation assigns it otherwise.
C7_OnlyFromReply ==
    [][device_state' # device_state =>
          /\ pc = "wl_scan"
          /\ w_kind = "cmd"
          /\ \E i \in 1..Len(received_packets) :
                /\ IsReplyTo(received_packets[i], w_cmd_id, w_cmd_type)
                /\ Len(received_packets[i]) >= 3
                /\ device_state' = received_packets[i][3]
      ]_vars

\* C8 as stated: DeviceState is always Unknown (0), Idle (3), Send (9) or
\* Receive (19), whatever bytes the device places in its replies.
C8_KnownStates == device_state \in {0, 3, 9, 19}

\* C8 as amended: DeviceState starts Unknown (0) and changes only to Send (9),
\* when open() has written its command, or to the third byte of the reply a
\* command wait matched, whatever that byte is.
C8_StateFromReplyByte ==
    /\ [](calls = 0 => device_state = 0)
    /\ [][device_state' # device_state =>
             \/ /\ op = "open"
                /\ device_state' = 9
             \/ /\ pc = "wl_scan"
                /\ w_kind = "cmd"
                /\ \E i \in 1..Len(received_packets) :
                      /\ IsReplyTo(received_packets[i], w_cmd_id, w_cmd_type)
                      /\ Len(received_packets[i]) >= 3
                      /\ device_state' = received_packets[i][3]
         ]_vars

\* C8 witness: a matching reply carried the byte 77 and DeviceState is 77.
C8_Witness == device_state = 77 /\ pc \in AfterCmdWait /\ rv

\* The reports of every fragment of the packet send_ir built are the last
\* reports written.
DataPacketWritten ==
    /\ op = "send_ir"
    /\ w_kind = "ack"
    /\ packet # <<>>
    /\ LET n == (Len(packet) + 55) \div 56
       IN  /\ Len(wire) >= n
           /\ \A k \in 1..n :
                 wire[Len(wire) - n + k] = Report(packet, packet_idx, (k - 1) * 56)

\* C9: once every fragment of the data packet is written, send_ir ends only
\* by returning true, both when it found the output acknowledgement carrying
\* the data packet's command_id and when the window elapsed without one.
C9_OptimisticSuccess ==
    /\ []((op = "send_ir" /\ pc = "s_done") =>
             /\ DataPacketWritten
             /\ rv => \E i \in 1..Len(received_packets) :
                         IsReplyTo(received_packets[i], w_cmd_id, CMD_OUTPUT))
    /\ [][(DataPacketWritten /\ pc' = "idle") =>
             (pc = "s_done" /\ result' = "True")]_vars

\* C9 witness: send_ir wrote a two-fragment data packet, received nothing in
\* its window and returned true.
C9_Witness ==
    /\ op = "send_ir"
    /\ pc = "idle"
    /\ result = "True"
    /\ ~rv
    /\ received_packets = <<>>
    /\ Len(wire) = 2

\* C10 as stated: send_ir never returns false because a reply to a command it
\* issued was missing (a missing reply is the only way it returns false).
C10_NeverFalse == ~(op = "send_ir" /\ pc = "idle" /\ result = "False")

\* C10 as amended: send_ir returns false exactly when the send-mode switch it
\* issued first found no matching reply in its window; a missing
\* acknowledgement of the data packet is never a failure.
C10_FalseOnlyForModeSwitch ==
    [][(op = "send_ir" /\ pc # "idle" /\ pc' = "idle") =>
          ((result' = "False") <=>
              (pc = "s_after_mode" /\ ~rv /\ w_cmd_type = CMD_SEND_MODE))
      ]_vars

\* C10 witness: send_ir wrote its send-mode command, found no reply to it and
\* returned false without writing the data packet.
C10_Witness ==
    /\ op = "send_ir"
    /\ pc = "idle"
    /\ result = "False"
    /\ Len(wire) = 1

\* The payload bytes a written report carries (its frag_size minus 3).
ChunkOf(report) == SubSeq(report, 6, report[2] + 2)

\* The k-th 56-byte piece of a byte string.
Piece(bytes, k) ==
    SubSeq(bytes, 56 * (k - 1) + 1, IF 56 * k < Len(bytes) THEN 56 * k ELSE Len(bytes))

\* The data packet of the send_ir in progress: start marker, command_id, data
\* type, frequency index, timing bytes, end marker.
ExpectedIrBytes ==
    <<83, 84, w_cmd_id, 68, get_freq_index(a_freq)>> \o a_ir \o <<69, 78>>

\* A report carrying a whole send-mode command.
IsSendModeReport(report) ==
    /\ Len(ChunkOf(report)) = 6
    /\ ChunkOf(report)[1] = 83 /\ ChunkOf(report)[2] = 84
    /\ ChunkOf(report)[4] = 83
    /\ ChunkOf(report)[5] = 69 /\ ChunkOf(report)[6] = 78

\* C11: in a running send_ir called with DeviceState other than Send, the
\* first report written is the send-mode command, every later report is the
\* next fragment of the data packet, and a fragment of the data packet is
\* written only when the wait for the mode reply has returned success; called
\* with DeviceState Send, every report written, the first included, is the
\* next fragment of the data packet.
C11_SendIrOrder ==
    (op = "send_ir" /\ pc # "idle") =>
        IF state_at_call # 9
        THEN /\ wire # <<>> => IsSendModeReport(wire[1])
             /\ \A k \in 2..Len(wire) :
                   /\ w_kind = "ack"
                   /\ wire[k][5] = k - 1
                   /\ ChunkOf(wire[k]) = Piece(ExpectedIrBytes, k - 1)
             /\ (w_kind = "ack" /\ pc = "sr_write") => (rv /\ wire # <<>>)
        ELSE \A k \in 1..Len(wire) :
                /\ w_kind = "ack"
                /\ wire[k][5] = k
                /\ ChunkOf(wire[k]) = Piece(ExpectedIrBytes, k)

\* C11 witness: send_ir, called with DeviceState Unknown, has written the
\* mode command and then both fragments of its data packet.
C11_Witness ==
    /\ op = "send_ir"
    /\ pc # "idle"
    /\ state_at_call = 0
    /\ Len(wire) = 3

\* A report carrying a whole command of the given type.
IsCommandReport(report, type) ==
    /\ Len(ChunkOf(report)) = 6
    /\ ChunkOf(report)[1] = 83 /\ ChunkOf(report)[2] = 84
    /\ ChunkOf(report)[4] = type
    /\ ChunkOf(report)[5] = 69 /\ ChunkOf(report)[6] = 78

\* Where the foreground is while it polls the inbox: the wait and the scan.
PollPcs == {"wl_wait", "wl_lock", "wl_scan", "wl_clear", "wl_unlock", "wl_unlock_ret"}

\* C12: a running receive_ir writes at most three commands, in the order
\* receive-mode (82), cancel (67), start-output (79); the cancel is written
\* only after the wait for the receive-mode reply returned success; the
\* start-output is written only after the inbox clear that follows the cancel
\* (the third clear of the call) and is followed by no wait for its own reply;
\* the inbox is polled for data only once start-output is written, and data is
\* returned only from an inbox that holds nothing published before that clear.
C12_ReceiveOrder ==
    (op = "receive_ir" /\ pc # "idle") =>
        /\ Len(wire) <= 3
        /\ \A k \in 1..Len(wire) : IsCommandReport(wire[k], <<82, 67, 79>>[k])
        /\ (pc = "sr_write" /\ Len(wire) = 1) => (rv /\ clears = 2)
        /\ (pc = "sr_write" /\ Len(wire) = 2) => (clears = 3 /\ w_kind = "data")
        /\ Len(wire) = 3 => (clears = 3 /\ w_kind = "data")
        /\ (w_kind = "data" /\ pc \in PollPcs) => Len(wire) = 3
        /\ (pc = "r_done" /\ rv) =>
              /\ clears = 3
              /\ fresh = Len(received_packets)
              /\ \E i \in 1..Len(received_packets) :
                    result_data = SubSeq(received_packets[i], 3,
                                         Len(received_packets[i]))

\* C12 witness: receive_ir wrote its three commands and found IR data.
C12_Witness ==
    /\ op = "receive_ir"
    /\ pc = "r_done"
    /\ rv
    /\ Len(wire) = 3
    /\ clears = 3

\* A logical packet of at least 2 bytes whose second byte is the data type.
IsDataPacket(pkt) == Len(pkt) >= 2 /\ pkt[2] = 68

\* The first data packet of the inbox has just been returned as result_data,
\* without its first 2 bytes.
ReturnsFirstData ==
    \E i \in 1..Len(received_packets) :
        /\ IsDataPacket(received_packets[i])
        /\ \A j \in 1..(i - 1) : ~IsDataPacket(received_packets[j])
        /\ result_data = SubSeq(received_packets[i], 3, Len(received_packets[i]))

ModeCommand(mode) ==
    IF mode = "send" THEN 83 ELSE IF mode = "receive" THEN 82 ELSE 76

\* C15: a running set_mode was called with 'send', 'receive' or 'idle', waits
\* for the reply to the command type of that mode, writes that command and
\* nothing else, and returns what the blocking switch returned; a call with
\* any other mode ends at once with a usage error (ValueError), leaving
\* command_id, packet_index, inbox and signal as they were and writing nothing.
C15_SetMode ==
    /\ []((op = "set_mode" /\ pc # "idle") =>
             /\ a_mode \in {"send", "receive", "idle"}
             /\ w_cmd_type = ModeCommand(a_mode)
             /\ Len(wire) <= 1
             /\ wire # <<>> => IsCommandReport(wire[1], ModeCommand(a_mode)))
    /\ []((op = "set_mode" /\ result = "ValueError") =>
             (pc = "idle" /\ wire = <<>> /\ clears = 0))
    /\ [][/\ (pc = "idle" /\ op' = "set_mode" /\ calls' = calls + 1
                 /\ a_mode' \notin {"send", "receive", "idle"}) =>
                /\ pc' = "idle"
                /\ result' = "ValueError"
                /\ UNCHANGED <<cmd_id, packet_idx, received_packets,
                               packet_event, device_state, dev>>
          /\ (op = "set_mode" /\ pc = "m_done" /\ pc' = "idle") =>
                result' = IF rv THEN "True" ELSE "False"
         ]_vars

\* C15 witness: on an open session whose counters were used, set_mode was
\* called with an unknown mode and ended with the usage error.
C15_Witness ==
    /\ op = "set_mode"
    /\ result = "ValueError"
    /\ a_mode = "turbo"
    /\ dev
    /\ cmd_id = 1
    /\ packet_idx = 1

\* C16: close() never raises.  While it runs the reader has been asked to
\* stop and at most one report, the idle-mode command, has been written; it
\* ends with a plain return and no device handle (is_connected() false),
\* also when the writes of the idle command failed five times; called on a
\* session without a device it returns at once, writes nothing and changes
\* no field, inbox or reassembly state.
C16_CloseNeverRaises ==
    /\ [](op = "close" =>
             /\ result \in {"running", "None"}
             /\ pc = "idle" => (result = "None" /\ ~dev)
             /\ pc # "idle" => ~read_active
             /\ Len(wire) <= 1
             /\ wire # <<>> => IsCommandReport(wire[1], CMD_IDLE_MODE))
    /\ [][/\ (op = "close" /\ pc # "idle" /\ pc' = "idle") =>
                (pc = "close_release" /\ result' = "None" /\ ~dev' /\ ~read_active')
          /\ (pc = "idle" /\ op' = "close" /\ calls' = calls + 1 /\ ~dev) =>
                /\ pc' = "idle"
                /\ result' = "None"
                /\ wire' = <<>>
                /\ UNCHANGED <<fieldVars, inboxVars, reasmVars>>
         ]_vars

\* C16 witness: close() of an opened session returned normally although no
\* write of its idle command succeeded.
C16_Witness ==
    /\ op = "close"
    /\ pc = "idle"
    /\ result = "None"
    /\ ~dev
    /\ wire = <<>>
    /\ state_at_call = STATE_SEND
    /\ cmd_id = 2
    /\ packet_idx = 2

\* C17: after close() has returned the inbox is empty and the device state is
\* Unknown (0, the value __init__ gives it).
C17_ClearedOnClose ==
    (op = "close" /\ pc = "idle") =>
        (received_packets = <<>> /\ device_state = 0)

\* C18: when open() has claimed the transport and is about to start the reader
\* of the new session, the counters, the inbox and the reassembly state have
\* the values __init__ gave them.
C18_OpenResets ==
    (op = "open" /\ pc = "open_start") =>
        /\ cmd_id = 0
        /\ packet_idx = 0
        /\ received_packets = <<>>
        /\ recv_buffer = <<>>
        /\ recv_packet_idx = 0
        /\ recv_frag_count = 0
        /\ recv_last_frag = 0

\* C19: no background reader ends with an unhandled error.
C19_ReaderNeverCrashes ==
    \A r \in Readers : r_pc[r] # "crashed"

\* A reader thread that has been started and has not ended.
Running(r) == r_pc[r] \notin {"off", "stopped", "crashed"}

\* C20 (second half): a reader that is running when shutdown has been
\* requested (read_active is false) eventually ends.
C20_StopsOnceRequested ==
    \A r \in Readers : (Running(r) /\ ~read_active) ~> ~Running(r)

(***************************************************************************)
(* Claims about the identifiers (checked under SpecIds).                   *)
(***************************************************************************)
\* The successor of v in the cycle 1..n: v + 1, and 1 after n.
CycleNext(v, n) == IF v = n THEN 1 ELSE v + 1

\* The report written by this step.
Written == wire'[Len(wire')]

\* C21: the counters never leave 0..127 and 0..15 and are zero only before
\* their first use; a counter that changes takes the next value of its cycle
\* (127 is followed by 1, 15 by 1); the command_id advances in the step that
\* starts a command and the packet_index in the step that starts a logical
\* packet, never both in one step; every packet handed to _send_report
\* carries the current command_id, and every report written carries the
\* current packet_index, in 1..15, and (in its first fragment) that
\* command_id, in 1..127.
C21_Identifiers ==
    /\ [](/\ cmd_id \in 0..127
          /\ packet_idx \in 0..15
          /\ pc \in {"sr_begin", "sr_write"} => (packet[3] = cmd_id /\ cmd_id # 0)
          /\ pc = "sr_write" => packet_idx # 0)
    /\ [][/\ cmd_id' # cmd_id =>
                /\ cmd_id' = CycleNext(cmd_id, 127)
                /\ packet_idx' = packet_idx
          /\ packet_idx' # packet_idx =>
                /\ packet_idx' = CycleNext(packet_idx, 15)
                /\ pc = "sr_begin"
          /\ Len(wire') > Len(wire) =>
                /\ wire' = Append(wire, Written)
                /\ Written[3] = packet_idx
                /\ Written[3] \in 1..15
                /\ Written[5] = 1 => (Written[8] = cmd_id /\ Written[8] \in 1..127)
         ]_vars

\* C21 witness: a report was written with command_id 1 and packet_index 15:
\* the command_id has wrapped from 127 while the packet_index has not.
C21_Witness ==
    /\ wire # <<>>
    /\ wire[Len(wire)][8] = 1
    /\ wire[Len(wire)][3] = 15
    /\ cmd_id = 1
    /\ packet_idx = 15

(***************************************************************************)
(* Claims about the outbound framing (checked under SpecFrame).            *)
(***************************************************************************)
\* ceil(n / d)
CeilDiv(n, d) == IF n % d = 0 THEN n \div d ELSE (n \div d) + 1

\* The last report on the wire is fragment k of the n-byte packet p under
\* packet_index pi: 61 bytes, tag 2, payload length + 3, pi, ceil(n / 56), k,
\* the k-th run of at most 56 bytes of p, and zeros up to the end.
IsFragmentOf(report, p, pi, k) ==
    LET first == 56 * (k - 1) + 1
        last  == IF 56 * k < Len(p) THEN 56 * k ELSE Len(p)
        size  == last - first + 1
    IN  /\ Len(report) = 61
        /\ report[1] = 2
        /\ size \in 1..56
        /\ report[2] = size + 3
        /\ report[3] = pi
        /\ report[4] = CeilDiv(Len(p), 56)
        /\ report[5] = k
        /\ k <= report[4]
        /\ \A i \in 1..size : report[5 + i] = p[first + i - 1]
        /\ \A i \in (5 + size + 1)..61 : report[i] = 0

\* C22: while _send_report works on a packet of n >= 1 bytes, the k-th report
\* it has written is fragment k of that packet in the layout [2][payload
\* length + 3][packet_index][ceil(n/56)][k][payload][zero padding] of 61
\* bytes, all under the packet_index drawn for this packet; when it returns
\* it has written exactly the fragments 1 .. ceil(n/56).
C22_OutboundFraming ==
    /\ []((op = "_send_report" /\ pc \in {"sr_write", "sr_done"}) =>
             \A k \in 1..Len(wire) : IsFragmentOf(wire[k], packet, packet_idx, k))
    /\ []((op = "_send_report" /\ pc = "sr_done") =>
             Len(wire) = CeilDiv(Len(packet), 56))

\* C22 witness: a packet of 112 bytes was written as two full fragments.
C22_Witness ==
    /\ op = "_send_report"
    /\ pc = "sr_done"
    /\ Len(packet) = 112
    /\ Len(wire) = 2
    /\ wire[2][2] = 59

(***************************************************************************)
(* Further claims about the reassembler (checked under SpecReasm).         *)
(***************************************************************************)
\* The reassembly state as __init__ leaves it.
FreshReassembler ==
    /\ recv_buffer = <<>>
    /\ recv_packet_idx = 0
    /\ recv_frag_count = 0
    /\ recv_last_frag = 0

\* C23: on a fresh reassembler a well-formed fragment with fragment_index 2
\* is dropped: the reader returns to its loop, and reassembly state, inbox
\* and signal stay as they were.  Fragment 1 of a 2-fragment packet seeds the
\* buffer without completing; fragment 2 with the same packet_index arriving
\* next is appended and completes the packet, which goes to publication when
\* the buffer carries both markers and to the reset otherwise.
C23_TwoFragments ==
    [][\A r \in Readers :
          (ProcessesFragment(r) /\ WellFormedFragment(r_data'[r])) =>
             LET d == r_data'[r]
             IN  /\ (FreshReassembler /\ d[5] = 2) =>
                       /\ UNCHANGED <<recv_buffer, recv_packet_idx,
                                      recv_frag_count, recv_last_frag,
                                      received_packets, packet_event>>
                       /\ r_pc'[r] = "loop"
                 /\ (FreshReassembler /\ d[5] = 1 /\ d[4] = 2) =>
                       /\ recv_buffer' = AnnouncedPayload(d)
                       /\ recv_packet_idx' = d[3]
                       /\ recv_frag_count' = 2
                       /\ recv_last_frag' = 1
                       /\ r_pc'[r] = "loop"
                       /\ UNCHANGED <<received_packets, packet_event>>
                 /\ (recv_frag_count = 2 /\ recv_last_frag = 1 /\ d[5] = 2
                        /\ d[3] = recv_packet_idx) =>
                       /\ recv_buffer' = recv_buffer \o AnnouncedPayload(d)
                       /\ recv_last_frag' = 2
                       /\ r_pc'[r] = IF HasBothMarkers(recv_buffer')
                                     THEN "pub1" ELSE "reset"
      ]_vars

\* C23 witness: two reads, the head and the tail of one packet, were
\* reassembled and published as the packet (command_id 5, send-mode type).
C23_Witness ==
    /\ reads = 2
    /\ recv_last_frag = 2
    /\ recv_buffer = <<83, 84, 5, 83, 69, 78>>
    /\ received_packets = << <<5, 83>> >>
    /\ packet_event

\* A read that is the only fragment (fragment_count 1, fragment_index 1) of
\* a packet made of the start marker, a command_id, a command_type and the
\* end marker.
IsBareCommandFragment(d) ==
    /\ Len(d) >= 11
    /\ d[1] = 1 /\ d[2] = 9 /\ d[4] = 1 /\ d[5] = 1
    /\ d[6] = 83 /\ d[7] = 84
    /\ d[10] = 69 /\ d[11] = 78

\* C24: the read of such a fragment completes the packet at once (the reader
\* enters the publication with these six bytes as the buffer); the
\* publication appends the two bytes command_id, command_type to the inbox
\* in one step and in no other, raises the signal, and is followed by the
\* reset and the return to the loop without another append.
C24_SingleFragment ==
    [][\A r \in Readers :
          /\ (ProcessesFragment(r) /\ IsBareCommandFragment(r_data'[r])) =>
                /\ r_pc'[r] = "pub1"
                /\ recv_buffer' = SubSeq(r_data'[r], 6, 11)
                /\ UNCHANGED <<received_packets, packet_event>>
          /\ (IsBareCommandFragment(r_data[r]) /\ r_pc'[r] # r_pc[r]) =>
                /\ r_pc[r] = "pub1" =>
                      (r_pc'[r] = "pub2" /\ UNCHANGED <<received_packets, packet_event>>)
                /\ r_pc[r] = "pub2" =>
                      /\ r_pc'[r] = "pub3"
                      /\ received_packets' =
                            Append(received_packets, <<r_data[r][8], r_data[r][9]>>)
                /\ r_pc[r] = "pub3" =>
                      (r_pc'[r] = "pub4" /\ packet_event' /\ UNCHANGED received_packets)
                /\ r_pc[r] = "pub4" =>
                      (r_pc'[r] = "reset" /\ UNCHANGED <<received_packets, packet_event>>)
                /\ r_pc[r] = "reset" =>
                      (r_pc'[r] = "loop" /\ UNCHANGED <<received_packets, packet_event>>)
      ]_vars

\* C24 witness: after one read, a lone fragment, the inbox holds exactly the
\* packet (command_id 5, send-mode type), the signal is raised and the reader
\* is back in its loop.
C24_Witness ==
    /\ reads = 1
    /\ received_packets = << <<5, 83>> >>
    /\ packet_event
    /\ recv_last_frag = 1
    /\ r_pc[1] = "loop"

\* C25: the step that ends the handling of a completed packet, published or
\* not, leaves the reassembly state cleared: empty buffer, expected
\* packet_index, fragment_count and last fragment_index all 0.
C25_ClearedOnCompletion ==
    [][\A r \in Readers :
          (r_pc[r] = "reset" /\ r_pc'[r] = "loop") =>
              /\ recv_buffer' = <<>>
              /\ recv_packet_idx' = 0
              /\ recv_frag_count' = 0
              /\ recv_last_frag' = 0
      ]_vars

\* C26: whatever the reassembly state, the read of a well-formed fragment
\* with fragment_index 1 makes the buffer exactly the payload of this
\* fragment (no byte gathered before remains), takes the expected
\* packet_index and fragment_count from its header and sets last-received to
\* 1; the inbox and the signal are not touched by this step.
C26_FirstFragmentRestarts ==
    [][\A r \in Readers :
          (ProcessesFragment(r) /\ WellFormedFragment(r_data'[r])
              /\ r_data'[r][5] = 1) =>
              /\ recv_buffer' = AnnouncedPayload(r_data'[r])
              /\ recv_packet_idx' = r_data'[r][3]
              /\ recv_frag_count' = r_data'[r][4]
              /\ recv_last_frag' = 1
              /\ UNCHANGED <<received_packets, packet_event>>
      ]_vars

\* C26 witness: a packet was published (its bytes stay in the buffer), and a
\* later first fragment of a 2-fragment packet has replaced the buffer by its
\* own 4 bytes.
C26_Witness ==
    /\ reads = 3
    /\ received_packets = << <<5, 83>> >>
    /\ recv_buffer = <<83, 84, 5, 83>>
    /\ recv_last_frag = 1
    /\ recv_frag_count = 2

\* The step in which a read of reader r returns (any bytes, or none).
ReadReturns(r) == r_pc[r] = "read" /\ r_pc'[r] # "read" /\ reads' = reads + 1

\* The discard rules: fewer than 5 bytes, a report tag other than 1, or a
\* payload length (second byte minus 3) that is <= 0 or > 56.
DiscardCase(d) ==
    \/ Len(d) < 5
    \/ d[1] # 1
    \/ d[2] - 3 <= 0
    \/ d[2] - 3 > 56

\* C27: a read that falls under a discard rule leaves the reassembly state,
\* the inbox and the signal unchanged, and the reader goes on to its next
\* read.
C27_DiscardRules ==
    [][\A r \in Readers :
          (ReadReturns(r) /\ DiscardCase(r_data'[r])) =>
              /\ UNCHANGED <<recv_buffer, recv_packet_idx, recv_frag_count,
                             recv_last_frag, received_packets, packet_event>>
              /\ r_pc'[r] = "loop"
      ]_vars

\* C27 witness: with the head of a 2-fragment packet in the buffer, a whole
\* packet under the outbound tag 2 was read and discarded.
C27_Witness ==
    /\ reads = 2
    /\ r_pc[1] = "loop"
    /\ r_data[1] = <<2, 9, 1, 1, 1, 83, 84, 5, 83, 69, 78>>
    /\ recv_buffer = <<83, 84, 5, 83>>
    /\ recv_frag_count = 2
    /\ recv_last_frag = 1
    /\ received_packets = <<>>

(***************************************************************************)
(* C28: decoding the frame encode_nec built for a code gives the code      *)
(* back: decode_nec(encode_nec(code)) = code.                              *)
(***************************************************************************)
C28_RoundTrip == nec_pc = "done" => decoded = nec_code

\* The ticks the bytes of an encoder output stand for.
RECURSIVE TicksEmitted(_)
TicksEmitted(bytes) ==
    IF bytes = <<>> THEN 0 ELSE (Head(bytes) % 128) + TicksEmitted(Tail(bytes))

(***************************************************************************)
(* C29: the encoder's rounding does not accumulate: after every pulse the  *)
(* emitted time is a whole number of ticks, the requested time is ahead of *)
(* it by less than one tick, and the ticks emitted so far are the whole    *)
(* ticks of the time requested so far.                                     *)
(***************************************************************************)
C29_NoAccumulation ==
    nec_pc # "unused" =>
        /\ sender_time % IR_TICK_SIZE = 0
        /\ 0 <= pulse_time - sender_time
        /\ pulse_time - sender_time < IR_TICK_SIZE
        /\ TicksEmitted(nec_result) = pulse_time \div IR_TICK_SIZE
        /\ TicksEmitted(nec_result) * IR_TICK_SIZE = sender_time

\* A whole frame was emitted, the requested time is not a whole number of
\* ticks, and on the way a pulse came out one tick longer than its own
\* duration rounds down to (164 = 0x80 + 36, where 1125 \div 32 = 35).
C29_Witness ==
    /\ nec_pc = "done"
    /\ nec_step = NEC_PULSES
    /\ pulse_time % IR_TICK_SIZE # 0
    /\ \E i \in 1..Len(nec_result) :
          nec_result[i] = 128 + (NEC_PULSE_SIZE \div IR_TICK_SIZE) + 1

(***************************************************************************)
(* C30: the bytes an add_pulse call appends all carry the pulse's flag in  *)
(* the high bit and a tick count from 1 to 127 in the low 7 bits; the tick *)
(* counts sum to the pulse's ticks and only the last may be below 127.     *)
(***************************************************************************)
C30_ByteFormat ==
    [][Len(nec_result') > Len(nec_result) =>
        LET new   == SubSeq(nec_result', Len(nec_result) + 1, Len(nec_result'))
            ticks == (pulse_time' - sender_time) \div IR_TICK_SIZE
            flag  == IF PulseHigh(nec_step) THEN 1 ELSE 0
        IN  /\ SubSeq(nec_result', 1, Len(nec_result)) = nec_result
            /\ \A i \in 1..Len(new) :
                  /\ new[i] \in 0..255
                  /\ new[i] \div 128 = flag
                  /\ new[i] % 128 \in 1..MAX_BLOCK_SIZE
                  /\ i < Len(new) => new[i] % 128 = MAX_BLOCK_SIZE
            /\ TicksEmitted(new) = ticks
            /\ ticks > MAX_BLOCK_SIZE => Len(new) > 1]_vars

\* Both long pulses of a frame were emitted in several bytes: the leader
\* mark (562 ticks: four bytes of 127 and one of 54, all flagged) and the
\* trailing space (19 bytes of 127 and a shorter one, none flagged).
C30_Witness ==
    /\ nec_step = NEC_PULSES
    /\ SubSeq(nec_result, 1, 6) = <<255, 255, 255, 255, 182, 127>>
    /\ nec_result[Len(nec_result) - 1] = MAX_BLOCK_SIZE
    /\ nec_result[Len(nec_result)] \in 1..(MAX_BLOCK_SIZE - 1)

\* An encoder output read as runs of equal polarity: <<active, ticks>> each.
RECURSIVE RunsFrom(_, _)
RunsFrom(bytes, runs) ==
    IF bytes = <<>> THEN runs
    ELSE LET active == Head(bytes) >= 128
             ticks  == Head(bytes) % 128
             n      == Len(runs)
         IN  IF n > 0 /\ runs[n][1] = active
             THEN RunsFrom(Tail(bytes), [runs EXCEPT ![n] = <<active, runs[n][2] + ticks>>])
             ELSE RunsFrom(Tail(bytes), Append(runs, <<active, ticks>>))

Runs(bytes) == RunsFrom(bytes, <<>>)

\* Bit number i (from 0) of address | (~address)<<8 | command<<16 | (~command)<<24.
FrameBit(code, i) ==
    LET address == (code \div 256) % 256
        command == code % 256
        bytes   == <<address, 255 - address, command, 255 - command>>
    IN  (bytes[(i \div 8) + 1] \div (2 ^ (i % 8))) % 2

\* The frame of a code in NEC units: leader mark and space, 32 marks and
\* spaces, stop pulse, trailer.  Odd positions are active.
FrameUnits(code) ==
    [k \in 1..68 |->
        IF k = 1 THEN 16
        ELSE IF k = 2 THEN 8
        ELSE IF k = 67 THEN 1
        ELSE IF k = 68 THEN 72
        ELSE IF k % 2 = 1 THEN 1
        ELSE IF FrameBit(code, (k - 4) \div 2) = 1 THEN 3 ELSE 1]

\* Units of the first k entries of a frame.
RECURSIVE UnitsUpTo(_, _)
UnitsUpTo(units, k) == IF k = 0 THEN 0 ELSE units[k] + UnitsUpTo(units, k - 1)

\* The running-remainder rule: run k lasts the whole ticks elapsed at its
\* end less the whole ticks elapsed at its start.
FrameRuns(code) ==
    LET units == FrameUnits(code)
        TicksAt(k) == (UnitsUpTo(units, k) * NEC_PULSE_SIZE) \div IR_TICK_SIZE
    IN  [k \in 1..68 |-> <<k % 2 = 1, TicksAt(k) - TicksAt(k - 1)>>]

(***************************************************************************)
(* C31: the output of encode_nec, read as runs of equal polarity, is the   *)
(* leader mark (16 units) and space (8), a 1-unit mark and a 3- or 1-unit  *)
(* space for each of the 32 frame bits, least significant first, the stop  *)
(* pulse (1) and the trailer (72), converted by the running remainder.     *)
(***************************************************************************)
C31_FrameStructure ==
    nec_pc \in {"decode", "done"} => Runs(nec_result) = FrameRuns(nec_code)

\* A frame holding both bit values in each of its four bytes was encoded.
C31_Witness ==
    /\ nec_pc = "done"
    /\ nec_code = 85 * 256 + 170
    /\ Len(Runs(nec_result)) = NEC_PULSES
    /\ \E i, j \in 0..7 : FrameBit(nec_code, i) = 1 /\ FrameBit(nec_code, j) = 0

\* The address given to encode_nec_extended fails the inversion check of
\* decode_nec: its high byte is not the complement of its low byte.
InversionFails ==
    /\ nec_address # None
    /\ (nec_address \div 256) % 256 # 255 - (nec_address % 256)

(***************************************************************************)
(* C32: decode_nec is best-effort: for the frame encode_nec_extended built *)
(* from an address whose inversion check fails, it returns                 *)
(* (address low byte << 8) | command, not None.                            *)
(***************************************************************************)
C32_BestEffort ==
    (nec_pc = "done" /\ InversionFails) =>
        decoded = (nec_address % 256) * 256 + (nec_command % 256)

\* The indexes of the table.
ValidIndex(i) == 0 <= i /\ i < 30

(***************************************************************************)
(* C33: get_freq_index gives the position of each of the 30 entries and 0  *)
(* for every other frequency; get_freq_by_index gives the entry for        *)
(* 0 <= i < 30 and 38000 for every other i, negative ones included; so     *)
(* the index of the frequency of a valid index is that index, the index of *)
(* 38000 is 0 and the frequency of 29 is the last entry.                   *)
(***************************************************************************)
C33_FreqLookups ==
    /\ (fq_fn = "get_freq_index" /\ fq_pc \in {"returned", "back"}) =>
          /\ \A i \in 0..29 : fq_arg = IR_FREQ_TABLE[i + 1] => fq_ret = i
          /\ (\A i \in 0..29 : fq_arg # IR_FREQ_TABLE[i + 1]) => fq_ret = 0
          /\ fq_arg = 38000 => fq_ret = 0
    /\ (fq_fn = "get_freq_by_index" /\ fq_pc \in {"returned", "back"}) =>
          /\ ValidIndex(fq_arg) => fq_ret = IR_FREQ_TABLE[fq_arg + 1]
          /\ ~ValidIndex(fq_arg) => fq_ret = 38000
          /\ fq_arg = 29 => fq_ret = IR_FREQ_TABLE[Len(IR_FREQ_TABLE)]
    /\ (fq_fn = "get_freq_by_index" /\ fq_pc = "back" /\ ValidIndex(fq_arg)) =>
          fq_back = fq_arg

\* The last entry was looked up by its index and its index found again.
C33_Witness ==
    /\ fq_pc = "back"
    /\ fq_fn = "get_freq_by_index"
    /\ fq_arg = 29
    /\ fq_ret = 45000
    /\ fq_back = 29

\* receive_ir has returned, and its receive-mode switch had been confirmed:
\* it went on to write the cancel command after the receive-mode command.
ReceiveConfirmed ==
    /\ op = "receive_ir"
    /\ pc = "idle"
    /\ Len(wire) >= 2
    /\ IsCommandReport(wire[1], CMD_RECV_MODE)

(***************************************************************************)
(* C34: a send_ir called after a receive_ir whose receive-mode switch the  *)
(* device confirmed starts with the send-mode command (and its wait), not  *)
(* with the data packet, whatever the replies of the device were.          *)
(***************************************************************************)
C34_SwitchesBack ==
    [][(ReceiveConfirmed /\ op' = "send_ir") =>
          (pc' = "w_begin" /\ w_cmd_type' = CMD_SEND_MODE)]_vars

(***************************************************************************)
(* C35: a failed open() leaves nothing running: once open() has returned   *)
(* false, the handle is unset (is_connected() is false), read_active is    *)
(* false and no reader thread runs.                                        *)
(***************************************************************************)
C35_FailedOpenIsClean ==
    (op = "open" /\ pc = "idle" /\ result = "False") =>
        /\ ~dev
        /\ ~read_active
        /\ \A r \in Readers : ~Running(r)

\* Reader r takes a step that changes the reassembly state.
Reassembles(r) == r_pc'[r] # r_pc[r] /\ reasmVars' # reasmVars

(***************************************************************************)
(* C36: at most one reader feeds the reassembler at any time: when a       *)
(* reader changes the reassembly state, no other reader is running (the    *)
(* reader of an earlier session has stopped by then).                      *)
(***************************************************************************)
C36_SingleReader ==
    [][\A r \in Readers :
          Reassembles(r) => \A q \in Readers \ {r} : ~Running(q)]_vars

\* The payload of a report: the first (payload size field - 3) bytes after
\* the 5-byte header.
WrittenPayload(report) == SubSeq(report, 6, 5 + report[2] - 3)

\* The payloads of the first k reports, in write order.
RECURSIVE PayloadsUpTo(_, _)
PayloadsUpTo(reports, k) ==
    IF k = 0 THEN <<>> ELSE PayloadsUpTo(reports, k - 1) \o WrittenPayload(reports[k])

(***************************************************************************)
(* C37: fragmentation preserves the packet: the reports of one logical     *)
(* packet are written in increasing fragment_index order; fragment k + 1   *)
(* is attempted only once fragment k was written; the write that fails     *)
(* fatally writes nothing and no fragment is written after it; and when    *)
(* _send_report returns, the payloads in write order make up the packet.   *)
(***************************************************************************)
C37_PacketPreserved ==
    /\ [](op = "_send_report" =>
            /\ \A k \in 1..Len(wire) : wire[k][5] = k
            /\ pc = "sr_write" =>
                  /\ Len(wire) = offset \div 56
                  /\ PayloadsUpTo(wire, Len(wire)) = SubSeq(packet, 1, offset)
            /\ pc = "sr_done" => PayloadsUpTo(wire, Len(wire)) = packet)
    /\ [][op = "_send_report" =>
            /\ Len(wire') > Len(wire) =>
                  /\ pc = "sr_write"
                  /\ wire' = Append(wire, wire'[Len(wire')])
                  /\ wire'[Len(wire')][5] = Len(wire) + 1
            /\ (pc = "sr_write" /\ pc' = "idle") =>
                  /\ result' \in {"USBError", "USBTimeoutError", "AttributeError"}
                  /\ wire' = wire
                  /\ Len(wire) * 56 < Len(packet)
            /\ (pc = "idle" /\ op' = op /\ calls' = calls) => wire' = wire
         ]_vars

\* A packet of 113 bytes went out whole, as fragments of 56, 56 and 1 bytes.
C37_Witness ==
    /\ op = "_send_report"
    /\ pc = "sr_done"
    /\ Len(packet) = 113
    /\ Len(wire) = 3
    /\ WrittenPayload(wire[3]) = <<packet[113]>>

\* The second fragment of a packet failed for the fifth time: _send_report
\* ended with the error, one report written.
C37_FatalWitness ==
    /\ op = "_send_report"
    /\ pc = "idle"
    /\ result = "USBTimeoutError"
    /\ Len(wire) = 1

\* The fragment d is accepted by a reassembler whose in-progress packet is
\* pidx and whose last-received index is last: it starts a packet, or it is
\* the next fragment of the packet in progress.
Accepted(d, pidx, last) ==
    /\ WellFormedFragment(d)
    /\ \/ d[5] = 1
       \/ d[3] = pidx /\ d[5] = last + 1

(***************************************************************************)
(* C38: at-most-once publication: the inbox grows by one packet at a time  *)
(* and between two appends lies a read; a reader publishes only after the  *)
(* read in which a fragment was accepted and made last-received equal to a *)
(* positive fragment_count; a dropped or discarded fragment never leads to *)
(* a publication, so a finished packet is not published again.             *)
(***************************************************************************)
C38_AtMostOnce ==
    /\ [](Len(received_packets) <= reads)
    /\ [][/\ Len(received_packets') <= Len(received_packets) + 1
          /\ Len(received_packets') > Len(received_packets) =>
                \E r \in Readers :
                    /\ InPublish(r)
                    /\ r_pc'[r] # r_pc[r]
                    /\ recv_frag_count > 0
                    /\ recv_last_frag = recv_frag_count
                    /\ r_data[r][5] = recv_last_frag
          /\ \A r \in Readers :
                (ProcessesFragment(r) /\ InPublish(r)') =>
                    /\ Accepted(r_data'[r], recv_packet_idx, recv_last_frag)
                    /\ recv_frag_count' > 0
                    /\ recv_last_frag' = recv_frag_count'
                    /\ recv_last_frag' = r_data'[r][5]
         ]_vars

\* A packet was published, and the fragment read after it, which is not a
\* first fragment and does not continue anything, was dropped: the inbox
\* still holds the one packet.
C38_Witness ==
    /\ Len(received_packets) = 1
    /\ reads >= 2
    /\ r_pc[1] = "loop"
    /\ WellFormedFragment(r_data[1])
    /\ r_data[1][5] # 1
    /\ recv_frag_count = 0
    /\ recv_last_frag = 1

\* The threads of the front-end that are inside send_ir, receive_ir or
\* close of the TiqiaaIR instance number i.
InDriver(i) ==
    { t \in SendThreads : g_send[t].pc \in {"tap_send", "full_send"} /\ g_send[t].ir = i }
        \cup (IF g_learn.pc = "receive_ir" /\ g_learn.ir = i THEN {"learn"} ELSE {})
        \cup (IF g_main \in {"refresh_close", "close_close"} /\ g_ir = i
              THEN {"main"} ELSE {})

(***************************************************************************)
(* C39: the graphical front-end serializes its use of the driver: at any   *)
(* time at most one of send_ir, receive_ir and close is executing on a     *)
(* TiqiaaIR instance.                                                      *)
(***************************************************************************)
C39_Serialized ==
    \A i \in 1..MaxConnects : Cardinality(InDriver(i)) <= 1

====
